---- MODULE Spec2Model ----
(***************************************************************************)
(* Xianxia Idle (src/js/main.js, V1.2.0): the lifecycle of a run.          *)
(*                                                                         *)
(* The state is the global S of main.js, the module-level latch            *)
(* isHandlingDeath, the ModalManager singleton and the balance BAL.        *)
(* One action stands for one event-loop task of the page: a frame of       *)
(* loop(), a pointer event on a button, a visibilitychange event, the      *)
(* dismissal of the modal on screen (with the promise continuations it     *)
(* resolves, which run as microtasks of the same task), the 100 ms timer   *)
(* that displays the next modal, and closing and reloading the page.       *)
(*                                                                         *)
(* Units.  Qi amounts (qi, lifetimeQi, qpcBase, qpsBase, costs, rates) are *)
(* whole Qi and a product is truncated to that unit.  Time speeds are held *)
(* in halves, so 1 is 0.5x, 2 is 1x and 4 is 2x.  dt and offline gaps are  *)
(* whole seconds, ages whole years.  The karma and cycle multipliers are   *)
(* held in 1/10000, the skill multipliers in 1/100.  NaN is the one        *)
(* non-finite value that can be stored.                                    *)
(***************************************************************************)
EXTENDS Integers, Sequences, FiniteSets

\* ---------------------------------------------------------------- bounds
\* loop() frames carry dt in 0..MaxDt seconds, or -MaxBack when the wall clock
\* was set back.
MaxDt == 1
MaxBack == 200
\* An offline gap is 0..MaxGap seconds.
MaxGap == 3
\* Skill levels bought in one run, all skills together.
MaxSkillLevel == 1
\* The player stops clicking, the clock stops and the page stays in front once
\* this much Qi is held.
MaxQi == 2
\* The clock is not set back again once lifetimeQi is this far below zero.
MaxDebt == 0
\* Breakthroughs that advance, per run.
MaxClimb == 1
\* New runs (completed transitions) after which the player and the clock stop.
MaxRuns == 1
\* Modals waiting in ModalManager._queue.
MaxQueue == 2

\* ------------------------------------------------------- JavaScript values
null == -1
NaN == -2

Min(a, b) == IF a < b THEN a ELSE b
Max(a, b) == IF a > b THEN a ELSE b

RECURSIVE Pow(_, _)
Pow(b, e) == IF e <= 0 THEN 1 ELSE b * Pow(b, e - 1)

\* floor(sqrt(n)) for n >= 0
Isqrt(n) == CHOOSE r \in 0..(n + 1) : r * r <= n /\ (r + 1) * (r + 1) > n

\* a * b / 1000000 on six-digit fixed point, without leaving 32 bits
MulFix6(a, b) == ((a \div 1000) * b) \div 1000 + ((a % 1000) * b) \div 1000000

\* floor(a * 10000 / b) for a >= 0 and 0 < b < 200000, without leaving 32 bits
DivFix4(a, b) == (a \div b) * 10000 + ((a % b) * 10000) \div b

\* Math.exp(-0.03) and Math.exp(-0.04) in 1/1000000
ExpNeg003 == 970446
ExpNeg004 == 960789

\* The n-th power of e in 1/1000000
RECURSIVE PowFix6(_, _)
PowFix6(e, n) == IF n <= 0 THEN 1000000 ELSE MulFix6(PowFix6(e, n - 1), e)

\* Math.exp(-rate * karma) in 1/1000000, as the karma-th power of e1 =
\* exp(-rate), taken sixteen at a time
ExpNeg(e1, karma) ==
  MulFix6(PowFix6(PowFix6(e1, 16), karma \div 16), PowFix6(e1, karma % 16))

\* Number.isFinite
isFinite(v) == v # NaN
safeNum(v, d) == IF isFinite(v) THEN v ELSE d

\* ------------------------------------------------------------ the balance
SkillIds == {"breath_control", "meridian_flow", "lotus_meditation", "dantian_temps", "closed_door"}

\* A balance.json: loadBalance() merges it over the defaults of BAL.  Costs,
\* requirements and lifespans are small so that a run reaches its gates
\* within the bounds.  The base of a multiplier skill is held in 1/100.
SmallBalance ==
  [ skills |-> [ breath_control   |-> [base |-> 1,   cost |-> 2, costScale |-> 2],
                 meridian_flow    |-> [base |-> 1,   cost |-> 2, costScale |-> 2],
                 lotus_meditation |-> [base |-> 100, cost |-> 3, costScale |-> 2],
                 dantian_temps    |-> [base |-> 100, cost |-> 3, costScale |-> 2],
                 closed_door      |-> [base |-> 100, cost |-> 3, costScale |-> 2] ],
    stageRequirement |-> [realmBase |-> 2, realmBaseScale |-> 1, stageScale |-> 1],
    progression |-> [qpcBaseStart |-> 1, qpsBaseStart |-> 1,
                     realmAdvanceReward |-> [qpcBaseAdd |-> 0, qpsBaseAdd |-> 0]],
    \* deathPenalty is absent from BAL, so computeDeathKarma uses 0.5 (held in 1/100)
    reincarnation |-> [lifetimeQiDivisor |-> 25, realmKarmaFactor |-> 1, minKarma |-> 1,
                       deathPenalty |-> 50],
    \* capHours is held as capHours * 3600, in seconds
    offline |-> [capHours |-> 2],
    lifespan |-> [realmMaxLifespan |-> <<2, 2, 2, 2, 2, 3, 3, 3, 3, null>>, yearsPerSecond |-> 1],
    timeSpeed |-> [speeds |-> <<0, 2, 4>>, unlockRealmIndex |-> <<0, 0, 5>>] ]

\* realms.length
NumRealms == 10

VARIABLES
  BAL,              \* the balance after loadBalance()
  S,                \* the game state object
  isHandlingDeath,  \* module-level latch of handleLifespanEnd
  MM,               \* ModalManager, with the timers that were set
  hidden,           \* document.hidden
  G,                \* history of the current run (not program state)
  lastOp,           \* the handler that ran last, with the guard and the speed it found
                    \* and what it wrote to localStorage (not program state)
  away,             \* seconds by which Date.now() is ahead of `last` of loop() after a
                    \* return from the background, while one of the two callbacks of the
                    \* return (the resume handler, the next frame) has still to run
  ioArea            \* the textarea of the export / import panel

vars == <<BAL, S, isHandlingDeath, MM, hidden, G, lastOp, away, ioArea>>

\* Faulty variant: the Qi multiplier grows with karma without a cap
karmaQiMultUncapped(karma) ==
  IF karma = NaN THEN NaN ELSE 10000 + 480 * karma

\* ------------------------------------------------- karma and power scaling
\* 1 + 1.2 * (1 - e^(-0.04 k)), in 1/10000
karmaQiMult(karma) ==
  IF karma = NaN THEN NaN ELSE 10000 + (12 * (1000000 - ExpNeg(ExpNeg004, karma))) \div 1000

\* 1 + 1.5 * (1 - e^(-0.03 k)), in 1/10000
karmaLifeMult(karma) ==
  IF karma = NaN THEN NaN ELSE 10000 + (15 * (1000000 - ExpNeg(ExpNeg003, karma))) \div 1000

\* 1 + 0.6 * (1 - e^(-0.03 k)), in 1/10000
karmaStageMult(karma) ==
  IF karma = NaN THEN NaN ELSE 10000 + (6 * (1000000 - ExpNeg(ExpNeg003, karma))) \div 1000

CYCLES == [mortal |-> [start |-> 0, end |-> 4], spirit |-> [start |-> 5, end |-> 9]]

\* Faulty variant: the bonus of a realm compounds on that of the realm below
cyclePowerMultCompounding(realmIndex) ==
  LET inMortal == realmIndex >= CYCLES.mortal.start /\ realmIndex <= CYCLES.mortal.end
      inSpirit == realmIndex >= CYCLES.spirit.start /\ realmIndex <= CYCLES.spirit.end
      idxInCycle == IF inMortal THEN realmIndex - CYCLES.mortal.start
                    ELSE IF inSpirit THEN realmIndex - CYCLES.spirit.start ELSE 0
  IN  IF inMortal THEN (10000 * Pow(12, idxInCycle)) \div Pow(10, idxInCycle)
      ELSE IF inSpirit THEN (10000 * Pow(14, idxInCycle)) \div Pow(10, idxInCycle)
      ELSE 10000

\* 1 + 0.20 per realm into the mortal cycle, 0.40 into the spirit cycle, in 1/10000
cyclePowerMult(realmIndex) ==
  LET inMortal == realmIndex >= CYCLES.mortal.start /\ realmIndex <= CYCLES.mortal.end
      inSpirit == realmIndex >= CYCLES.spirit.start /\ realmIndex <= CYCLES.spirit.end
      idxInCycle == IF inMortal THEN realmIndex - CYCLES.mortal.start
                    ELSE IF inSpirit THEN realmIndex - CYCLES.spirit.start ELSE 0
      add == IF inMortal THEN 2000 * idxInCycle ELSE IF inSpirit THEN 4000 * idxInCycle ELSE 0
  IN  10000 + add

baseEff(bal, id) == bal.skills[id].base

\* Qi per click (S.qpcMult is 1 throughout)
totalQPC(bal, st) ==
  LET val == st.qpcBase + st.skills["meridian_flow"] * baseEff(bal, "meridian_flow")
      qpcMult == 100 + st.skills["dantian_temps"] * baseEff(bal, "dantian_temps")
      skilled == (val * qpcMult) \div 100
      withKarma == (skilled * karmaQiMult(st.reinc.karma)) \div 10000
  IN  IF karmaQiMult(st.reinc.karma) = NaN THEN NaN
      ELSE (withKarma * cyclePowerMult(st.realmIndex)) \div 10000

\* Qi per second (S.qpsMult is 1 throughout)
totalQPS(bal, st) ==
  LET val == st.qpsBase + st.skills["breath_control"] * baseEff(bal, "breath_control")
      mult == 100 + st.skills["lotus_meditation"] * baseEff(bal, "lotus_meditation")
      skilled == (val * mult) \div 100
      withKarma == (skilled * karmaQiMult(st.reinc.karma)) \div 10000
  IN  IF karmaQiMult(st.reinc.karma) = NaN THEN NaN
      ELSE (withKarma * cyclePowerMult(st.realmIndex)) \div 10000

\* in 1/100
totalOfflineMult(bal, st) == 100 + st.skills["closed_door"] * baseEff(bal, "closed_door")

skillCost(bal, st, id) ==
  bal.skills[id].cost * Pow(bal.skills[id].costScale, st.skills[id])

\* Faulty variant: the requirement is multiplied by karmaStageMult, not divided
stageRequirementRising(bal, st, realmIndex, stage) ==
  LET realmBase == bal.stageRequirement.realmBase
                     * Pow(bal.stageRequirement.realmBaseScale, realmIndex)
      base == realmBase * Pow(bal.stageRequirement.stageScale, stage - 1)
      karmaReduction == karmaStageMult(st.reinc.karma)
  IN  IF karmaReduction = NaN THEN NaN ELSE (base \div 10000) * karmaReduction + ((base % 10000) * karmaReduction) \div 10000

\* floor(floor(realmBase * realmBaseScale^realm * stageScale^(stage-1)) / karmaStageMult)
stageRequirement(bal, st, realmIndex, stage) ==
  LET realmBase == bal.stageRequirement.realmBase
                     * Pow(bal.stageRequirement.realmBaseScale, realmIndex)
      base == realmBase * Pow(bal.stageRequirement.stageScale, stage - 1)
      karmaReduction == karmaStageMult(st.reinc.karma)
  IN  IF karmaReduction = NaN THEN NaN ELSE DivFix4(base, karmaReduction)

\* null in the True Immortal realm, else floor(base * karmaLifeMult(karma))
getMaxLifespan(bal, st, realmIndex) ==
  LET maxFromConfig == bal.lifespan.realmMaxLifespan[realmIndex + 1]
  IN  IF maxFromConfig = null THEN null
      ELSE IF st.reinc.karma = NaN THEN NaN
      ELSE (maxFromConfig * karmaLifeMult(st.reinc.karma)) \div 10000

isImmortal(bal, st) == getMaxLifespan(bal, st, st.realmIndex) = null

getTimeSpeed(st) == IF st.timeSpeed.paused THEN 0 ELSE st.timeSpeed.current

canReincarnate(st) ==
  /\ st.flags.hasCompletedMandatoryST10
  /\ (st.realmIndex > 4 \/ (st.realmIndex = 4 /\ st.stage >= 1))

\* Faulty variant: the spirit cycle pays no more than the mortal cycle
computeKarmaGainFlat(bal, st) ==
  LET safeLifetimeQi == safeNum(st.reinc.lifetimeQi, 0)
      safeDivisor == safeNum(bal.reincarnation.lifetimeQiDivisor, 1000)
      realmBonus == st.realmIndex * bal.reincarnation.realmKarmaFactor
  IN  IF safeLifetimeQi < 0 THEN NaN
      ELSE Max(bal.reincarnation.minKarma, Isqrt(safeLifetimeQi \div safeDivisor) + realmBonus)

\* Math.sqrt of a negative number is NaN, and Math.max(minKarma, NaN) is NaN
computeKarmaGain(bal, st) ==
  LET safeLifetimeQi == safeNum(st.reinc.lifetimeQi, 0)
      safeDivisor == safeNum(bal.reincarnation.lifetimeQiDivisor, 1000)
      realmBonus == st.realmIndex * bal.reincarnation.realmKarmaFactor
      cycleMultiplier == IF st.currentCycle = "spirit" THEN 2 ELSE 1
  IN  IF safeLifetimeQi < 0 THEN NaN
      ELSE Max(bal.reincarnation.minKarma,
               (Isqrt(safeLifetimeQi \div safeDivisor) + realmBonus) * cycleMultiplier)

computeVoluntaryKarma(bal, st) ==
  LET gain == computeKarmaGain(bal, st)
  IN  IF gain = NaN THEN NaN ELSE Max(bal.reincarnation.minKarma, gain)

computeDeathKarma(bal, st) ==
  LET gain == computeKarmaGain(bal, st)
  IN  IF gain = NaN THEN NaN
      ELSE Max(bal.reincarnation.minKarma, (gain * bal.reincarnation.deathPenalty) \div 100)

\* a < b and a - b in floating point: a comparison with NaN is false, a
\* difference with NaN is NaN
Less(a, b) == a # NaN /\ b # NaN /\ a < b

Minus(a, b) == IF a = NaN \/ b = NaN THEN NaN ELSE a - b

\* karma + gain in floating point
AddKarma(karma, gain) == IF karma = NaN \/ gain = NaN THEN NaN ELSE karma + gain

\* ----------------------------------------------------------- the state
\* Stand-in for the 1e300 ceiling of safeAddQi, above every amount the bounds allow
QiCeiling == 1000000000

BaseSpeeds == {0, 1, 2}

NoSession == [lastTs |-> 0, lastSpeed |-> 0]

defaultState(bal) ==
  [ qi |-> 0,
    qpcBase |-> bal.progression.qpcBaseStart,
    qpsBase |-> bal.progression.qpsBaseStart,
    realmIndex |-> 0,
    stage |-> 1,
    skills |-> [id \in SkillIds |-> 0],
    reinc |-> [times |-> 0, karma |-> 0, lifetimeQi |-> 0],
    lifespan |-> [current |-> bal.lifespan.realmMaxLifespan[1],
                  max |-> bal.lifespan.realmMaxLifespan[1]],
    age |-> 0,
    isDead |-> FALSE,
    timeSpeed |-> [current |-> 2, paused |-> FALSE],
    currentCycle |-> "mortal",
    flags |-> [unlockedBeyondSpirit |-> FALSE, hasUnlockedSpiritCycle |-> FALSE,
               hasCompletedMandatoryST10 |-> FALSE, canManualReincarnate |-> FALSE,
               lifespanHandled |-> FALSE],
    lifecycle |-> [isReincarnating |-> FALSE],
    stats |-> [deaths |-> 0],
    meta |-> [unlockedSpeeds |-> BaseSpeeds],
    session |-> NoSession ]

\* A modal of ModalManager.  kind names what its dismissal resumes: "death" the
\* rest of handleLifespanEnd, "voluntary" the confirm of tryManualReincarnate,
\* "gate" the confirm of showSpiritTransformationGate, "final" the confirm of
\* showCycleCompletionModal, "info" nothing.  gain is the karma captured by
\* handleLifespanEnd; run, src, deaths and times record the run that raised it.
NoModal == [kind |-> "none", gain |-> 0, run |-> 0, src |-> "none", deaths |-> 0, times |-> 0]
InfoModal == [NoModal EXCEPT !.kind = "info"]
ConfirmKinds == {"voluntary", "gate", "final"}

ModalManagerInit ==
  [ queue |-> <<>>, isActive |-> FALSE, shown |-> NoModal, previousTimeSpeed |-> null,
    displayTimer |-> FALSE,   \* setTimeout(_displayNext, 100) of handleClose is pending
    spiritTimer |-> FALSE ]   \* setTimeout(showModal, 500) of doBreakthrough is pending

NoFin == [src |-> "none", deaths |-> 0, times |-> 0, run |-> 0]

\* run: new runs started so far; bodies: entries into the body of
\* handleLifespanEnd since the run started; climbed: advancing breakthroughs
\* since the run started; deaths0: S.stats.deaths when the run started; grew:
\* growth of S.stats.deaths between the last two run starts; fin: the trigger
\* record of the death finalization that started this run, if one did;
\* cycleTransitions: achievementState.cycleTransitions, which is stored apart
\* from S.
GInit ==
  [run |-> 0, bodies |-> 0, climbed |-> 0, deaths0 |-> 0, grew |-> 0, fin |-> NoFin,
   cycleTransitions |-> 0]

NewRun(g, st, fin) ==
  [run |-> g.run + 1, bodies |-> 0, climbed |-> 0, deaths0 |-> st.stats.deaths,
   grew |-> st.stats.deaths - g.deaths0, fin |-> fin,
   cycleTransitions |-> g.cycleTransitions]

\* ------------------------------------------------------------ ModalManager
\* The handlers below take and return a world w = [S, H, MM, G], H being
\* isHandlingDeath.
displayNext(w) ==
  IF Len(w.MM.queue) = 0 THEN [w EXCEPT !.MM.isActive = FALSE]
  ELSE LET data == Head(w.MM.queue)
           pausing == ~w.S.timeSpeed.paused
           cur == w.S.timeSpeed.current
       IN  [w EXCEPT !.MM.isActive = TRUE,
                     !.MM.queue = Tail(@),
                     !.MM.shown = data,
                     !.MM.previousTimeSpeed = IF pausing THEN (IF cur = 0 THEN 2 ELSE cur) ELSE @,
                     !.S.timeSpeed.paused = IF pausing THEN TRUE ELSE @]

enqueue(w, modalData) ==
  LET pushed == [w EXCEPT !.MM.queue = Append(@, modalData)]
  IN  IF ~w.MM.isActive THEN displayNext(pushed) ELSE pushed

cleanup(w) ==
  IF w.MM.shown = NoModal THEN w
  ELSE IF Len(w.MM.queue) = 0 /\ w.MM.previousTimeSpeed # null
       THEN [w EXCEPT !.S.timeSpeed.paused = FALSE,
                      !.S.timeSpeed.current = w.MM.previousTimeSpeed,
                      !.MM.previousTimeSpeed = null,
                      !.MM.shown = NoModal]
       ELSE [w EXCEPT !.MM.shown = NoModal]

\* showModal(title, ..): src holds which notice it is
showModal(w, title) == enqueue(w, [InfoModal EXCEPT !.src = title])

showConfirm(w, kind) == enqueue(w, [NoModal EXCEPT !.kind = kind])

\* ------------------------------------------------------------- lifecycle
\* The synchronous part of handleLifespanEnd, up to its await on the alert
handleLifespanEnd(w, src) ==
  IF w.H \/ w.S.lifecycle.isReincarnating \/ w.S.isDead THEN w
  ELSE LET dying == [w EXCEPT !.H = TRUE,
                              !.S.isDead = TRUE,
                              !.S.lifecycle.isReincarnating = TRUE,
                              !.S.timeSpeed.current = 0,
                              !.S.timeSpeed.paused = TRUE,
                              !.G.bodies = @ + 1]
           gain == computeDeathKarma(BAL, dying.S)
       IN  enqueue(dying, [kind |-> "death", gain |-> gain, run |-> w.G.run, src |-> src,
                           deaths |-> w.S.stats.deaths, times |-> w.S.reinc.times])

\* What a new run keeps is restored over defaultState(); the lifespan is
\* safeNum(getMaxLifespan(0), 100)
FreshLifespan(st) ==
  LET newMaxLifespan == getMaxLifespan(BAL, st, 0)
      validLifespan == safeNum(newMaxLifespan, 100)
  IN  IF newMaxLifespan = null THEN [current |-> null, max |-> null]
      ELSE [current |-> validLifespan, max |-> validLifespan]

\* Faulty variant: a death counted twice, as when the death branch of
\* doReincarnate counts it again
performDeathReincarnationTwice(w, m) ==
  LET deaths == w.S.stats.deaths + 2
      newKarma == AddKarma(w.S.reinc.karma, m.gain)
      newTimes == w.S.reinc.times
      kept == [defaultState(BAL) EXCEPT
                 !.flags = [w.S.flags EXCEPT !.lifespanHandled = FALSE],
                 !.stats = [deaths |-> deaths],
                 !.reinc = [times |-> newTimes, karma |-> newKarma, lifetimeQi |-> 0],
                 !.meta = w.S.meta]
      born == [kept EXCEPT !.age = 0,
                           !.lifespan = FreshLifespan(kept),
                           !.isDead = FALSE,
                           !.timeSpeed = [current |-> 2, paused |-> FALSE],
                           !.lifecycle.isReincarnating = FALSE]
  IN  [w EXCEPT !.S = born, !.H = FALSE,
                !.G = NewRun(w.G, born, [src |-> m.src, deaths |-> m.deaths,
                                         times |-> m.times, run |-> m.run])]

\* Faulty variant: a death that also counts as a reincarnation
performDeathReincarnationCounted(w, m) ==
  LET deaths == w.S.stats.deaths + 1
      newKarma == AddKarma(w.S.reinc.karma, m.gain)
      newTimes == w.S.reinc.times + 1
      kept == [defaultState(BAL) EXCEPT
                 !.flags = [w.S.flags EXCEPT !.lifespanHandled = FALSE],
                 !.stats = [deaths |-> deaths],
                 !.reinc = [times |-> newTimes, karma |-> newKarma, lifetimeQi |-> 0],
                 !.meta = w.S.meta]
      born == [kept EXCEPT !.age = 0,
                           !.lifespan = FreshLifespan(kept),
                           !.isDead = FALSE,
                           !.timeSpeed = [current |-> 2, paused |-> FALSE],
                           !.lifecycle.isReincarnating = FALSE]
  IN  [w EXCEPT !.S = born, !.H = FALSE,
                !.G = NewRun(w.G, born, [src |-> m.src, deaths |-> m.deaths,
                                         times |-> m.times, run |-> m.run])]

\* The rest of handleLifespanEnd after the alert: performDeathReincarnation(gain)
\* and the finally block
performDeathReincarnation(w, m) ==
  LET deaths == w.S.stats.deaths + 1
      newKarma == AddKarma(w.S.reinc.karma, m.gain)
      newTimes == w.S.reinc.times
      kept == [defaultState(BAL) EXCEPT
                 !.flags = [w.S.flags EXCEPT !.lifespanHandled = FALSE],
                 !.stats = [deaths |-> deaths],
                 !.reinc = [times |-> newTimes, karma |-> newKarma, lifetimeQi |-> 0],
                 !.meta = w.S.meta]
      born == [kept EXCEPT !.age = 0,
                           !.lifespan = FreshLifespan(kept),
                           !.isDead = FALSE,
                           !.timeSpeed = [current |-> 2, paused |-> FALSE],
                           !.lifecycle.isReincarnating = FALSE]
  IN  [w EXCEPT !.S = born, !.H = FALSE,
                !.G = NewRun(w.G, born, [src |-> m.src, deaths |-> m.deaths,
                                         times |-> m.times, run |-> m.run])]

\* Faulty variant: doReincarnate that does not restore S.meta over defaultState()
doReincarnateDroppingMeta(w, mode) ==
  LET gain == computeVoluntaryKarma(BAL, w.S)
      wasAtST10 == w.S.realmIndex = 4 /\ w.S.stage = 10
      newKarma == AddKarma(w.S.reinc.karma, gain)
      newTimes == w.S.reinc.times + 1
      unlocking == mode = "mandatory" /\ wasAtST10
      kept == [defaultState(BAL) EXCEPT
                 !.reinc = [times |-> newTimes, karma |-> newKarma, lifetimeQi |-> 0],
                 !.flags = IF unlocking
                           THEN [w.S.flags EXCEPT !.hasCompletedMandatoryST10 = TRUE,
                                                  !.hasUnlockedSpiritCycle = TRUE,
                                                  !.canManualReincarnate = TRUE,
                                                  !.unlockedBeyondSpirit = TRUE,
                                                  !.lifespanHandled = FALSE]
                           ELSE [w.S.flags EXCEPT !.lifespanHandled = FALSE]]
      born == [kept EXCEPT !.age = 0,
                           !.isDead = FALSE,
                           !.lifespan = FreshLifespan(kept),
                           !.realmIndex = 0,
                           !.stage = 1,
                           !.currentCycle = "mortal",
                           !.lifecycle.isReincarnating = FALSE,
                           !.timeSpeed.paused = FALSE]
  IN  showModal([w EXCEPT !.S = born,
                           !.G = [NewRun(w.G, born, NoFin) EXCEPT
                                    !.cycleTransitions = IF unlocking THEN @ + 1 ELSE @]],
                "reborn")

\* doReincarnate in mode "voluntary" or "mandatory" (mode "death" has no caller)
doReincarnate(w, mode) ==
  LET gain == computeVoluntaryKarma(BAL, w.S)
      wasAtST10 == w.S.realmIndex = 4 /\ w.S.stage = 10
      newKarma == AddKarma(w.S.reinc.karma, gain)
      newTimes == w.S.reinc.times + 1
      unlocking == mode = "mandatory" /\ wasAtST10
      kept == [defaultState(BAL) EXCEPT
                 !.reinc = [times |-> newTimes, karma |-> newKarma, lifetimeQi |-> 0],
                 !.flags = IF unlocking
                           THEN [w.S.flags EXCEPT !.hasCompletedMandatoryST10 = TRUE,
                                                  !.hasUnlockedSpiritCycle = TRUE,
                                                  !.canManualReincarnate = TRUE,
                                                  !.unlockedBeyondSpirit = TRUE,
                                                  !.lifespanHandled = FALSE]
                           ELSE [w.S.flags EXCEPT !.lifespanHandled = FALSE],
                 !.meta = w.S.meta]
      born == [kept EXCEPT !.age = 0,
                           !.isDead = FALSE,
                           !.lifespan = FreshLifespan(kept),
                           !.realmIndex = 0,
                           !.stage = 1,
                           !.currentCycle = "mortal",
                           !.lifecycle.isReincarnating = FALSE,
                           !.timeSpeed.paused = FALSE]
  IN  showModal([w EXCEPT !.S = born,
                           !.G = [NewRun(w.G, born, NoFin) EXCEPT
                                    !.cycleTransitions = IF unlocking THEN @ + 1 ELSE @]],
                "reborn")

\* The values S takes inside doReincarnate, one per group of assignments, from
\* the setting of the guard to the last write before the guard is cleared
doReincarnateWrites(st, mode) ==
  LET guarded == [st EXCEPT !.lifecycle.isReincarnating = TRUE]
      gain == computeVoluntaryKarma(BAL, guarded)
      wasAtST10 == guarded.realmIndex = 4 /\ guarded.stage = 10
      oldFlags == guarded.flags
      oldMeta == guarded.meta
      newKarma == AddKarma(guarded.reinc.karma, gain)
      newTimes == guarded.reinc.times + 1
      reset == defaultState(BAL)
      withReinc == [reset EXCEPT !.reinc = [times |-> newTimes, karma |-> newKarma,
                                            lifetimeQi |-> 0]]
      withFlags == [withReinc EXCEPT !.flags = oldFlags]
      withMeta == [withFlags EXCEPT !.meta = oldMeta]
      unlocked == IF mode = "mandatory" /\ wasAtST10
                  THEN [withMeta EXCEPT !.flags.hasCompletedMandatoryST10 = TRUE,
                                        !.flags.hasUnlockedSpiritCycle = TRUE,
                                        !.flags.canManualReincarnate = TRUE,
                                        !.flags.unlockedBeyondSpirit = TRUE]
                  ELSE withMeta
      newLife == [unlocked EXCEPT !.age = 0, !.isDead = FALSE,
                                  !.flags.lifespanHandled = FALSE]
      withLifespan == [newLife EXCEPT !.lifespan = FreshLifespan(newLife)]
      atStart == [withLifespan EXCEPT !.realmIndex = 0, !.stage = 1,
                                      !.currentCycle = "mortal"]
  IN  <<guarded, reset, withReinc, withFlags, withMeta, unlocked, newLife,
        withLifespan, atStart>>

\* The end of doReincarnate: the guard is cleared and the clock unpaused
doReincarnateClear(st) ==
  [st EXCEPT !.lifecycle.isReincarnating = FALSE, !.timeSpeed.paused = FALSE]

\* The values S takes inside performDeathReincarnation(m.gain), up to the last
\* write before the guard is cleared
performDeathReincarnationWrites(st, m) ==
  LET counted == [st EXCEPT !.stats.deaths = @ + 1]
      keepFlags == counted.flags
      keepStats == [deaths |-> counted.stats.deaths]
      keepReinc == [times |-> counted.reinc.times,
                    karma |-> AddKarma(counted.reinc.karma, m.gain), lifetimeQi |-> 0]
      keepMeta == counted.meta
      reset == defaultState(BAL)
      withFlags == [reset EXCEPT !.flags = [keepFlags EXCEPT !.lifespanHandled = FALSE]]
      withStats == [withFlags EXCEPT !.stats = keepStats]
      withReinc == [withStats EXCEPT !.reinc = keepReinc]
      withMeta == [withReinc EXCEPT !.meta = keepMeta]
      newLife == [withMeta EXCEPT !.age = 0]
      withLifespan == [newLife EXCEPT !.lifespan = FreshLifespan(newLife)]
      alive == [withLifespan EXCEPT !.isDead = FALSE]
      running == [alive EXCEPT !.timeSpeed = [current |-> 2, paused |-> FALSE]]
  IN  <<counted, reset, withFlags, withStats, withReinc, withMeta, newLife,
        withLifespan, alive, running>>

\* The end of performDeathReincarnation: the guard is cleared
performDeathReincarnationClear(st) == [st EXCEPT !.lifecycle.isReincarnating = FALSE]

safeAddQi(st, x) ==
  IF ~isFinite(x) \/ x <= 0 THEN st ELSE [st EXCEPT !.qi = Max(0, Min(st.qi + x, QiCeiling))]

\* x / 2, truncated toward zero (speeds are held in halves)
Half(x) == IF x >= 0 THEN x \div 2 ELSE -((-x) \div 2)

\* rate * time at a speed held in halves; NaN if the rate is NaN
Scaled(rate, time) == IF rate = NaN THEN NaN ELSE Half(rate * time)

\* safeAddQi(gain); S.reinc.lifetimeQi = safeNum(S.reinc.lifetimeQi + gain, 0)
addGain(st, gain) ==
  [safeAddQi(st, gain) EXCEPT !.reinc.lifetimeQi = IF gain = NaN THEN 0 ELSE @ + gain]

updateLifespanOnRealmAdvance(st) ==
  LET newMax == getMaxLifespan(BAL, st, st.realmIndex)
  IN  [st EXCEPT !.lifespan = [current |-> newMax, max |-> newMax],
                 !.age = 0,
                 !.flags.lifespanHandled = FALSE]

\* Faulty variant: realm 5 is still counted to the mortal cycle
updateCurrentCycleOffByOne(st) ==
  IF st.realmIndex \in 0..5 THEN [st EXCEPT !.currentCycle = "mortal"]
  ELSE IF st.realmIndex \in 6..9 THEN [st EXCEPT !.currentCycle = "spirit"]
  ELSE st

updateCurrentCycle(st) ==
  IF st.realmIndex \in 0..4 THEN [st EXCEPT !.currentCycle = "mortal"]
  ELSE IF st.realmIndex \in 5..9 THEN [st EXCEPT !.currentCycle = "spirit"]
  ELSE st

isAtCycleEnd(st) ==
  IF st.currentCycle = "mortal"
  THEN st.realmIndex = 4 /\ st.stage = 10 /\ ~st.flags.unlockedBeyondSpirit
  ELSE IF st.currentCycle = "spirit" THEN st.realmIndex = 9 /\ st.stage = 10
  ELSE FALSE

getAvailableSpeeds(st) == BaseSpeeds \cup st.meta.unlockedSpeeds

checkAndUnlockSpeeds(st) ==
  LET allSpeeds == BAL.timeSpeed.speeds
      unlockRealms == BAL.timeSpeed.unlockRealmIndex
      reached == {allSpeeds[i] : i \in {j \in 1..Len(allSpeeds) :
                                          /\ allSpeeds[j] \notin BaseSpeeds
                                          /\ st.realmIndex >= unlockRealms[j]}}
  IN  [st EXCEPT !.meta.unlockedSpeeds = @ \cup BaseSpeeds \cup reached]

\* Faulty variant: tickLifespan without the return for the True Immortal realm
tickLifespanAgingImmortals(w, dt) ==
  LET st == w.S
      currentTimeSpeed == st.timeSpeed.current
      safeDt == Max(0, dt)
      agingRate == Half(safeDt * currentTimeSpeed * BAL.lifespan.yearsPerSecond)
      maxLifespan == getMaxLifespan(BAL, st, st.realmIndex)
      \* Math.min and Math.max with a NaN operand are NaN
      newAge == IF maxLifespan = NaN THEN NaN
                ELSE IF maxLifespan = null THEN Max(0, safeNum(st.age, 0) + agingRate)
                ELSE Max(0, Min(safeNum(st.age, 0) + agingRate, maxLifespan))
      aged == [st EXCEPT !.age = newAge,
                         !.lifespan.current = IF st.lifespan.max = null THEN @
                                              ELSE IF newAge = NaN THEN NaN
                                              ELSE Max(0, st.lifespan.max - newAge)]
  IN  IF st.timeSpeed.paused \/ st.isDead THEN w
      ELSE IF st.lifecycle.isReincarnating THEN w
      ELSE IF currentTimeSpeed <= 0 THEN w
      ELSE IF safeDt = 0 THEN w
      ELSE IF maxLifespan # null /\ newAge # NaN /\ newAge >= maxLifespan /\ ~st.flags.lifespanHandled
           THEN handleLifespanEnd([w EXCEPT !.S = [aged EXCEPT !.flags.lifespanHandled = TRUE]],
                                  "tick")
           ELSE [w EXCEPT !.S = aged]

tickLifespan(w, dt) ==
  LET st == w.S
      currentTimeSpeed == st.timeSpeed.current
      safeDt == Max(0, dt)
      agingRate == Half(safeDt * currentTimeSpeed * BAL.lifespan.yearsPerSecond)
      maxLifespan == getMaxLifespan(BAL, st, st.realmIndex)
      \* Math.min and Math.max with a NaN operand are NaN
      newAge == IF maxLifespan = NaN THEN NaN
                ELSE Max(0, Min(safeNum(st.age, 0) + agingRate, maxLifespan))
      aged == [st EXCEPT !.age = newAge,
                         !.lifespan.current = IF st.lifespan.max = null THEN @
                                              ELSE IF newAge = NaN THEN NaN
                                              ELSE Max(0, st.lifespan.max - newAge)]
  IN  IF st.timeSpeed.paused \/ st.isDead THEN w
      ELSE IF isImmortal(BAL, st) THEN w
      ELSE IF st.lifecycle.isReincarnating THEN w
      ELSE IF currentTimeSpeed <= 0 THEN w
      ELSE IF safeDt = 0 THEN w
      ELSE IF newAge # NaN /\ newAge >= maxLifespan /\ ~st.flags.lifespanHandled
           THEN handleLifespanEnd([w EXCEPT !.S = [aged EXCEPT !.flags.lifespanHandled = TRUE]],
                                  "tick")
           ELSE [w EXCEPT !.S = aged]

checkLifespanGate(w, src) ==
  LET st == w.S
      maxLife == getMaxLifespan(BAL, st, st.realmIndex)
  IN  IF isImmortal(BAL, st) THEN w
      ELSE IF st.flags.lifespanHandled \/ st.lifecycle.isReincarnating THEN w
      ELSE IF st.age # NaN /\ maxLife # NaN /\ st.age >= maxLife
           THEN handleLifespanEnd([w EXCEPT !.S.flags.lifespanHandled = TRUE], src)
           ELSE w

\* Faulty variant: tick without the check of the guard
tickUnguarded(w, dt) ==
  LET timeSpeed == getTimeSpeed(w.S)
      gain == Scaled(totalQPS(BAL, w.S), dt * timeSpeed)
      gained == addGain(w.S, gain)
  IN  IF timeSpeed = 0 THEN w
      ELSE IF w.H THEN w
      ELSE checkLifespanGate(tickLifespan([w EXCEPT !.S = gained], dt), "gate")

\* Faulty variant: tick reads S.timeSpeed.current, whatever S.timeSpeed.paused says
tickIgnoringPause(w, dt) ==
  LET timeSpeed == w.S.timeSpeed.current
      gain == Scaled(totalQPS(BAL, w.S), dt * timeSpeed)
      gained == addGain(w.S, gain)
  IN  IF timeSpeed = 0 THEN w
      ELSE IF w.S.lifecycle.isReincarnating THEN w
      ELSE IF w.H THEN w
      ELSE checkLifespanGate(tickLifespan([w EXCEPT !.S = gained], dt), "gate")

tick(w, dt) ==
  LET timeSpeed == getTimeSpeed(w.S)
      gain == Scaled(totalQPS(BAL, w.S), dt * timeSpeed)
      gained == addGain(w.S, gain)
  IN  IF timeSpeed = 0 THEN w
      ELSE IF w.S.lifecycle.isReincarnating THEN w
      ELSE IF w.H THEN w
      ELSE checkLifespanGate(tickLifespan([w EXCEPT !.S = gained], dt), "gate")

onClick(w) ==
  LET timeSpeed == getTimeSpeed(w.S)
      gain == Scaled(totalQPC(BAL, w.S), timeSpeed)
  IN  IF timeSpeed = 0 THEN w
      ELSE IF w.S.lifecycle.isReincarnating THEN w
      ELSE [w EXCEPT !.S = addGain(w.S, gain)]

\* showCycleCompletionModal of either type: its confirm calls doReincarnate(false)
triggerCycleTransition(w) == showConfirm(w, "final")

showSpiritTransformationGate(w) == showConfirm(w, "gate")

\* Faulty variant: a breakthrough below stage 10 advances two stages
doBreakthroughSkippingStage(w) ==
  LET st == w.S
      req == stageRequirement(BAL, st, st.realmIndex, st.stage)
      paid == [w EXCEPT !.S.qi = Minus(@, req), !.G.climbed = @ + 1]
      advanced == checkAndUnlockSpeeds(updateCurrentCycle(updateLifespanOnRealmAdvance(
                    [paid.S EXCEPT !.realmIndex = @ + 1,
                                   !.stage = 1,
                                   !.qpcBase = @ + BAL.progression.realmAdvanceReward.qpcBaseAdd,
                                   !.qpsBase = @ + BAL.progression.realmAdvanceReward.qpsBaseAdd])))
  IN  IF Less(st.qi, req) THEN w
      ELSE IF st.stage < 10 THEN [paid EXCEPT !.S.stage = Min(10, @ + 2)]
      ELSE IF st.realmIndex = 4 /\ ~st.flags.unlockedBeyondSpirit
           THEN showSpiritTransformationGate(paid)
      ELSE IF isAtCycleEnd(paid.S) THEN triggerCycleTransition(paid)
      ELSE IF st.realmIndex < NumRealms - 1
           THEN [paid EXCEPT !.S = advanced,
                             !.MM.spiritTimer = IF st.realmIndex = 4 /\ st.flags.unlockedBeyondSpirit
                                                THEN TRUE ELSE @]
      ELSE triggerCycleTransition(paid)

\* Faulty variant: the last realm is entered without resetting the stage
doBreakthroughKeepingStage(w) ==
  LET st == w.S
      req == stageRequirement(BAL, st, st.realmIndex, st.stage)
      paid == [w EXCEPT !.S.qi = Minus(@, req), !.G.climbed = @ + 1]
      advanced == checkAndUnlockSpeeds(updateCurrentCycle(updateLifespanOnRealmAdvance(
                    [paid.S EXCEPT !.realmIndex = @ + 1,
                                   !.stage = IF st.realmIndex = NumRealms - 2 THEN @ ELSE 1,
                                   !.qpcBase = @ + BAL.progression.realmAdvanceReward.qpcBaseAdd,
                                   !.qpsBase = @ + BAL.progression.realmAdvanceReward.qpsBaseAdd])))
  IN  IF Less(st.qi, req) THEN w
      ELSE IF st.stage < 10 THEN [paid EXCEPT !.S.stage = @ + 1]
      ELSE IF st.realmIndex = 4 /\ ~st.flags.unlockedBeyondSpirit
           THEN showSpiritTransformationGate(paid)
      ELSE IF isAtCycleEnd(paid.S) THEN triggerCycleTransition(paid)
      ELSE IF st.realmIndex < NumRealms - 1
           THEN [paid EXCEPT !.S = advanced,
                             !.MM.spiritTimer = IF st.realmIndex = 4 /\ st.flags.unlockedBeyondSpirit
                                                THEN TRUE ELSE @]
      ELSE triggerCycleTransition(paid)

doBreakthrough(w) ==
  LET st == w.S
      req == stageRequirement(BAL, st, st.realmIndex, st.stage)
      paid == [w EXCEPT !.S.qi = Minus(@, req), !.G.climbed = @ + 1]
      advanced == checkAndUnlockSpeeds(updateCurrentCycle(updateLifespanOnRealmAdvance(
                    [paid.S EXCEPT !.realmIndex = @ + 1,
                                   !.stage = 1,
                                   !.qpcBase = @ + BAL.progression.realmAdvanceReward.qpcBaseAdd,
                                   !.qpsBase = @ + BAL.progression.realmAdvanceReward.qpsBaseAdd])))
  IN  IF Less(st.qi, req) THEN w
      ELSE IF st.stage < 10 THEN [paid EXCEPT !.S.stage = @ + 1]
      ELSE IF st.realmIndex = 4 /\ ~st.flags.unlockedBeyondSpirit
           THEN showSpiritTransformationGate(paid)
      ELSE IF isAtCycleEnd(paid.S) THEN triggerCycleTransition(paid)
      ELSE IF st.realmIndex < NumRealms - 1
           THEN [paid EXCEPT !.S = advanced,
                             !.MM.spiritTimer = IF st.realmIndex = 4 /\ st.flags.unlockedBeyondSpirit
                                                THEN TRUE ELSE @]
      ELSE triggerCycleTransition(paid)

\* click listener of a shop button
purchase(w, id) ==
  LET cost == skillCost(BAL, w.S, id)
  IN  IF w.S.qi < cost THEN w
      ELSE [w EXCEPT !.S.qi = @ - cost, !.S.skills[id] = @ + 1]

\* Faulty variant: the request is not checked against canReincarnate
tryManualReincarnateUnchecked(w) == showConfirm(w, "voluntary")

tryManualReincarnate(w) ==
  IF ~canReincarnate(w.S) THEN showModal(w, "locked") ELSE showConfirm(w, "voluntary")

setTimeSpeed(w, speed) ==
  LET chosen == IF speed \in getAvailableSpeeds(w.S) THEN speed ELSE 2
  IN  IF chosen = 0 THEN [w EXCEPT !.S.timeSpeed = [paused |-> TRUE, current |-> 0]]
      ELSE [w EXCEPT !.S.timeSpeed = [paused |-> FALSE, current |-> chosen]]

\* ------------------------------------------------- session and persistence
\* S.session.lastSpeed is S.timeSpeed.current, whatever S.timeSpeed.paused says
saveSessionSnapshot(w) ==
  [w EXCEPT !.S.session = [lastTs |-> 1, lastSpeed |-> w.S.timeSpeed.current]]

\* Faulty variant: a snapshot taken at speed 0 is replayed at 1x (lastSpeed || 1)
applyOfflineProgressPausedAt1x(w, elapsedSec) ==
  LET st == w.S
      lastSpeed == IF st.session.lastSpeed <= 0 THEN 2 ELSE st.session.lastSpeed
      cleared == [w EXCEPT !.S.session = NoSession]
      cappedSec == Min(elapsedSec, BAL.offline.capHours)
      yearsPassed == Half(cappedSec * lastSpeed * BAL.lifespan.yearsPerSecond)
      qiGains == (Half(totalQPS(BAL, st) * cappedSec * lastSpeed) * totalOfflineMult(BAL, st)) \div 100
      gained == IF qiGains > 0
                THEN [safeAddQi(st, qiGains) EXCEPT !.reinc.lifetimeQi = @ + qiGains]
                ELSE st
      mortal == ~isImmortal(BAL, st) /\ st.lifespan.max # null
      newAge == Max(0, Min(st.age + yearsPassed, st.lifespan.max))
      aged == IF mortal
              THEN [gained EXCEPT !.age = newAge,
                                  !.lifespan.current = Max(0, st.lifespan.max - newAge)]
              ELSE IF ~isImmortal(BAL, st) THEN [gained EXCEPT !.age = @ + yearsPassed]
              ELSE gained
      lifespanExceeded == mortal /\ newAge >= st.lifespan.max
      done == [w EXCEPT !.S = [aged EXCEPT !.session = NoSession]]
  IN  IF st.session.lastTs = 0 THEN cleared
      ELSE IF elapsedSec < 1 THEN cleared
      ELSE IF lifespanExceeded THEN checkLifespanGate(done, "offline")
      ELSE IF qiGains > 0 THEN showModal(done, "offline")
      ELSE done

\* Faulty variant: the elapsed time is not capped
applyOfflineProgressUncapped(w, elapsedSec) ==
  LET st == w.S
      lastSpeed == st.session.lastSpeed
      cleared == [w EXCEPT !.S.session = NoSession]
      cappedSec == elapsedSec
      yearsPassed == Half(cappedSec * lastSpeed * BAL.lifespan.yearsPerSecond)
      qiGains == (Half(totalQPS(BAL, st) * cappedSec * lastSpeed) * totalOfflineMult(BAL, st)) \div 100
      gained == IF qiGains > 0
                THEN [safeAddQi(st, qiGains) EXCEPT !.reinc.lifetimeQi = @ + qiGains]
                ELSE st
      mortal == ~isImmortal(BAL, st) /\ st.lifespan.max # null
      newAge == Max(0, Min(st.age + yearsPassed, st.lifespan.max))
      aged == IF mortal
              THEN [gained EXCEPT !.age = newAge,
                                  !.lifespan.current = Max(0, st.lifespan.max - newAge)]
              ELSE IF ~isImmortal(BAL, st) THEN [gained EXCEPT !.age = @ + yearsPassed]
              ELSE gained
      lifespanExceeded == mortal /\ newAge >= st.lifespan.max
      done == [w EXCEPT !.S = [aged EXCEPT !.session = NoSession]]
  IN  IF st.session.lastTs = 0 THEN cleared
      ELSE IF lastSpeed <= 0 THEN cleared
      ELSE IF elapsedSec < 1 THEN cleared
      ELSE IF lifespanExceeded THEN checkLifespanGate(done, "offline")
      ELSE IF qiGains > 0 THEN showModal(done, "offline")
      ELSE done

\* Faulty variant: the gap is replayed at 1x, whatever the speed of the snapshot
applyOfflineProgressAt1x(w, elapsedSec) ==
  LET st == w.S
      lastSpeed == IF st.session.lastSpeed <= 0 THEN 0 ELSE 2
      cleared == [w EXCEPT !.S.session = NoSession]
      cappedSec == Min(elapsedSec, BAL.offline.capHours)
      yearsPassed == Half(cappedSec * lastSpeed * BAL.lifespan.yearsPerSecond)
      qiGains == (Half(totalQPS(BAL, st) * cappedSec * lastSpeed) * totalOfflineMult(BAL, st)) \div 100
      gained == IF qiGains > 0
                THEN [safeAddQi(st, qiGains) EXCEPT !.reinc.lifetimeQi = @ + qiGains]
                ELSE st
      mortal == ~isImmortal(BAL, st) /\ st.lifespan.max # null
      newAge == Max(0, Min(st.age + yearsPassed, st.lifespan.max))
      aged == IF mortal
              THEN [gained EXCEPT !.age = newAge,
                                  !.lifespan.current = Max(0, st.lifespan.max - newAge)]
              ELSE IF ~isImmortal(BAL, st) THEN [gained EXCEPT !.age = @ + yearsPassed]
              ELSE gained
      lifespanExceeded == mortal /\ newAge >= st.lifespan.max
      done == [w EXCEPT !.S = [aged EXCEPT !.session = NoSession]]
  IN  IF st.session.lastTs = 0 THEN cleared
      ELSE IF lastSpeed <= 0 THEN cleared
      ELSE IF elapsedSec < 1 THEN cleared
      ELSE IF lifespanExceeded THEN checkLifespanGate(done, "offline")
      ELSE IF qiGains > 0 THEN showModal(done, "offline")
      ELSE done

\* Faulty variant: the snapshot is cleared on the early returns only
applyOfflineProgressKeepingSnapshot(w, elapsedSec) ==
  LET st == w.S
      lastSpeed == st.session.lastSpeed
      cleared == [w EXCEPT !.S.session = NoSession]
      cappedSec == Min(elapsedSec, BAL.offline.capHours)
      yearsPassed == Half(cappedSec * lastSpeed * BAL.lifespan.yearsPerSecond)
      qiGains == (Half(totalQPS(BAL, st) * cappedSec * lastSpeed) * totalOfflineMult(BAL, st)) \div 100
      gained == IF qiGains > 0
                THEN [safeAddQi(st, qiGains) EXCEPT !.reinc.lifetimeQi = @ + qiGains]
                ELSE st
      mortal == ~isImmortal(BAL, st) /\ st.lifespan.max # null
      newAge == Max(0, Min(st.age + yearsPassed, st.lifespan.max))
      aged == IF mortal
              THEN [gained EXCEPT !.age = newAge,
                                  !.lifespan.current = Max(0, st.lifespan.max - newAge)]
              ELSE IF ~isImmortal(BAL, st) THEN [gained EXCEPT !.age = @ + yearsPassed]
              ELSE gained
      lifespanExceeded == mortal /\ newAge >= st.lifespan.max
      done == [w EXCEPT !.S = aged]
  IN  IF st.session.lastTs = 0 THEN cleared
      ELSE IF lastSpeed <= 0 THEN cleared
      ELSE IF elapsedSec < 1 THEN cleared
      ELSE IF lifespanExceeded THEN checkLifespanGate(done, "offline")
      ELSE IF qiGains > 0 THEN showModal(done, "offline")
      ELSE done

\* elapsedSec is Math.max(0, Math.floor((Date.now() - S.session.lastTs) / 1000))
applyOfflineProgressOnResume(w, elapsedSec) ==
  LET st == w.S
      lastSpeed == st.session.lastSpeed
      cleared == [w EXCEPT !.S.session = NoSession]
      cappedSec == Min(elapsedSec, BAL.offline.capHours)
      yearsPassed == Half(cappedSec * lastSpeed * BAL.lifespan.yearsPerSecond)
      qiGains == (Half(totalQPS(BAL, st) * cappedSec * lastSpeed) * totalOfflineMult(BAL, st)) \div 100
      gained == IF qiGains > 0
                THEN [safeAddQi(st, qiGains) EXCEPT !.reinc.lifetimeQi = @ + qiGains]
                ELSE st
      mortal == ~isImmortal(BAL, st) /\ st.lifespan.max # null
      newAge == Max(0, Min(st.age + yearsPassed, st.lifespan.max))
      aged == IF mortal
              THEN [gained EXCEPT !.age = newAge,
                                  !.lifespan.current = Max(0, st.lifespan.max - newAge)]
              ELSE IF ~isImmortal(BAL, st) THEN [gained EXCEPT !.age = @ + yearsPassed]
              ELSE gained
      lifespanExceeded == mortal /\ newAge >= st.lifespan.max
      done == [w EXCEPT !.S = [aged EXCEPT !.session = NoSession]]
  IN  IF st.session.lastTs = 0 THEN cleared
      ELSE IF lastSpeed <= 0 THEN cleared
      ELSE IF elapsedSec < 1 THEN cleared
      ELSE IF lifespanExceeded THEN checkLifespanGate(done, "offline")
      ELSE IF qiGains > 0 THEN showModal(done, "offline")
      ELSE done

\* JSON.parse(JSON.stringify(S)) followed by the migrations of load(): every
\* field of a V1.2.0 save is kept as written, the guard and isDead included;
\* a current speed that is not unlocked falls back to 1x
load(st) ==
  LET valid == IF st.timeSpeed.current # 0 /\ st.timeSpeed.current \notin st.meta.unlockedSpeeds
               THEN [st EXCEPT !.timeSpeed = [current |-> 2, paused |-> FALSE]]
               ELSE st
  IN  checkAndUnlockSpeeds([valid EXCEPT !.meta.unlockedSpeeds = @ \cup BaseSpeeds])

\* init() up to its await: the lifespan of the loaded state is re-derived
init(st) ==
  LET maxLifespan == getMaxLifespan(BAL, st, st.realmIndex)
  IN  IF st.lifespan.max # maxLifespan
      THEN [st EXCEPT !.lifespan.max = maxLifespan,
                      !.lifespan.current = IF maxLifespan = null THEN null
                                           ELSE IF @ > maxLifespan THEN maxLifespan ELSE @]
      ELSE st

\* ------------------------------------------------------- loaded saves
World(st) == [S |-> st, H |-> FALSE, MM |-> ModalManagerInit, G |-> GInit]

\* Click until the next breakthrough is paid for
RECURSIVE Earn(_)
Earn(st) ==
  IF st.qi >= stageRequirement(BAL, st, st.realmIndex, st.stage) THEN st
  ELSE CHOOSE r \in {Earn(v) : v \in {onClick(World(st)).S}} : TRUE

\* Click and break through, from st up to the given realm and stage
RECURSIVE Climb(_, _, _)
Climb(st, realmIndex, stage) ==
  IF st.realmIndex = realmIndex /\ st.stage = stage THEN st
  ELSE CHOOSE r \in {Climb(v, realmIndex, stage) : v \in {doBreakthrough(World(Earn(st))).S}} : TRUE

\* The run that follows a first life spent idle until its lifespan ran out
AfterDeath ==
  LET st == defaultState(BAL)
  IN  performDeathReincarnation(World(st),
        [NoModal EXCEPT !.kind = "death", !.gain = computeDeathKarma(BAL, st)]).S

\* The run that follows the mandatory reincarnation at the gate, its notice
\* dismissed (a set of one state)
AfterMandatory ==
  {cleanup(doReincarnate(w, "mandatory")).S :
     w \in {doBreakthrough(World(st)) : st \in {Earn(Climb(defaultState(BAL), 4, 10))}}}

\* States a player can have saved: a new game; one death, now near the gate;
\* newly reborn past the gate; past the gate and back near Spirit Transformation 10; near the True
\* Immortal realm; at the final ascension
PastGateST10 == {Climb(st, 4, 10) : st \in AfterMandatory}
PastGateR7 == {Climb(st, 7, 1) : st \in PastGateST10}
PastGateR8 == {Climb(st, 8, 10) : st \in PastGateR7}
PastGateR9 == {Climb(st, 9, 10) : st \in PastGateR8}

Saves ==
  {defaultState(BAL)}
    \cup {Climb(st, 4, 10) : st \in {AfterDeath}}
    \cup AfterMandatory \cup PastGateST10 \cup PastGateR8 \cup PastGateR9

\* What a handler wrote under SAVE_KEY: the lifecycle fields of the state that
\* save() or saveSessionSnapshot() stringified, if it called one of them
NotSaved == [written |-> FALSE, isReincarnating |-> FALSE, isDead |-> FALSE]

Persisted(st) ==
  [written |-> TRUE, isReincarnating |-> st.lifecycle.isReincarnating, isDead |-> st.isDead]

\* What a transition of the page has added: Qi held, Qi earned, and age
Credit(st) == [qi |-> st.qi, lifetimeQi |-> st.reinc.lifetimeQi, age |-> st.age]

\* The page is in front and loop() runs frame after frame: no hidden interval
\* is waiting for the visibilitychange hook or for the next frame
InFront == [gap |-> 0, handler |-> FALSE, frame |-> FALSE, alone |-> Credit(defaultState(SmallBalance))]

\* JSON.stringify writes a number that is not finite as null
JsonNumber(v) == IF isFinite(v) THEN v ELSE null

\* JSON.parse(JSON.stringify(st)): the object tree that the exported text
\* denotes.  The numbers that arithmetic writes can be NaN; the other fields
\* are integers, booleans, strings and arrays, written as they are
JsonStringify(st) ==
  [st EXCEPT !.qi = JsonNumber(@),
             !.age = JsonNumber(@),
             !.reinc = [times |-> JsonNumber(@.times), karma |-> JsonNumber(@.karma),
                        lifetimeQi |-> JsonNumber(@.lifetimeQi)],
             !.lifespan = [current |-> JsonNumber(@.current), max |-> JsonNumber(@.max)]]

\* The text area #ioArea.  filled tells an export code from the empty text;
\* value is the text (a base64 code is held as the object tree its JSON text
\* denotes) and exported the state it was made from, neither read while the
\* area is empty
EmptyArea ==
  [filled |-> FALSE, value |-> JsonStringify(defaultState(SmallBalance)),
   exported |-> defaultState(SmallBalance)]

\* exportSave: ioArea.value = btoa(unescape(encodeURIComponent(JSON.stringify(S))))
exportSave(w) == [filled |-> TRUE, value |-> JsonStringify(w.S), exported |-> w.S]

\* if(v) v = safeNum(v, d): null and 0 are falsy and stay
sanitized(v, d) == IF v = null \/ v = 0 THEN v ELSE safeNum(v, d)

\* The migrations and the sanitization of importSave on the parsed data: the
\* fields of a V1.2.0 save all exist, the base speeds are added, a current
\* speed that is not unlocked falls back to 1x
importedData(data) ==
  LET based == [data EXCEPT !.meta.unlockedSpeeds = @ \cup BaseSpeeds]
      valid == IF based.timeSpeed.current # 0
                    /\ based.timeSpeed.current \notin based.meta.unlockedSpeeds
               THEN [based EXCEPT !.timeSpeed = [current |-> 2, paused |-> FALSE]]
               ELSE based
  IN  [valid EXCEPT !.qi = sanitized(@, 0),
                    !.reinc.lifetimeQi = sanitized(@, 0),
                    !.age = sanitized(@, 0),
                    !.lifespan = [current |-> IF @.current # null THEN safeNum(@.current, 100) ELSE null,
                                  max |-> IF @.max # null THEN safeNum(@.max, 100) ELSE null]]

\* importSave: S = {...defaultState(), ...data}; save(); the notice.  The
\* empty text does not parse and only raises the failure notice
importSave(w, area) ==
  IF ~area.filled THEN showModal(w, "importFailed")
  ELSE showModal([w EXCEPT !.S = importedData(area.value)], "imported")

\* No handler has run yet
NoOp == [op |-> "none", guard |-> FALSE, speed |-> 0, dt |-> 0, saved |-> NotSaved]

Init ==
  /\ BAL = SmallBalance
  /\ S \in Saves
  /\ isHandlingDeath = FALSE
  /\ MM = ModalManagerInit
  /\ hidden = FALSE
  /\ G = [GInit EXCEPT !.deaths0 = S.stats.deaths,
                       !.cycleTransitions = IF S.flags.hasCompletedMandatoryST10 THEN 1 ELSE 0]
  /\ lastOp = NoOp
  /\ away = InFront
  /\ ioArea = EmptyArea

\* ---------------------------------------------------------------- actions
Now == [S |-> S, H |-> isHandlingDeath, MM |-> MM, G |-> G]

\* The handlers that end in save() or are saveSessionSnapshot(): the click
\* listener of the breakthrough button, setTimeSpeed, the visibilitychange
\* hook, performDeathReincarnation, doReincarnate, the 15 s interval and
\* importSave
SavingOps ==
  {"breakthrough", "setSpeed", "hide", "death", "voluntary", "mandatory", "autosave", "import"}

\* The step of one handler: the state it leaves, and in lastOp its name, the
\* guard at its entry, the speed it read (for a resume or a reload, the
\* speed of the session snapshot), the seconds it was given (dt of a tick,
\* elapsedSec of a resume or a reload) and what it persisted: the state it
\* leaves, for a purchase only if something was bought, for a reload the
\* state that pagehide wrote
Step(w, op, dt) ==
  /\ S' = w.S
  /\ isHandlingDeath' = w.H
  /\ MM' = w.MM
  /\ G' = w.G
  /\ lastOp' = [op |-> op,
                 guard |-> S.lifecycle.isReincarnating,
                 speed |-> IF op = "resume" THEN S.session.lastSpeed
                           ELSE IF op = "reload" THEN S.timeSpeed.current
                           ELSE getTimeSpeed(S),
                 dt |-> dt,
                 saved |-> IF op \in SavingOps THEN Persisted(w.S)
                           ELSE IF op = "purchase" /\ w.S # S THEN Persisted(w.S)
                           ELSE IF op = "reload" THEN Persisted(S)
                           ELSE NotSaved]
  /\ UNCHANGED BAL

\* A step of a page whose clock and export panel are not involved
Commit(w, op, dt) == Step(w, op, dt) /\ UNCHANGED <<away, ioArea>>

\* The player and the clock go on while the bounds allow; on a page whose
\* karma is NaN only the frame loop and the modals it still has to show are
\* followed
Playing ==
  /\ G.run < MaxRuns
  /\ isFinite(S.reinc.karma)
  /\ Len(MM.queue) < MaxQueue

\* The page is visible and no overlay covers its buttons
PointerFree == ~hidden /\ MM.shown = NoModal

\* One frame of loop(): dt = (now() - last) / 1000, now() being Date.now()
Tick(dt) ==
  /\ Playing \/ ~isFinite(S.reinc.karma)
  /\ ~hidden
  /\ dt > 0 => S.qi < MaxQi
  /\ dt < 0 => S.reinc.lifetimeQi >= -MaxDebt
  /\ Commit(tick(Now, dt), "tick", dt)
  /\ UNCHANGED hidden

\* pointerdown on the cultivator
Click ==
  /\ Playing /\ PointerFree
  /\ S.qi < MaxQi
  /\ Commit(onClick(Now), "click", 0)
  /\ UNCHANGED hidden

\* click on the breakthrough button: doBreakthrough(); save(); renderAll()
Breakthrough ==
  /\ Playing \/ ~isFinite(S.reinc.karma)
  /\ PointerFree
  /\ G.climbed < MaxClimb
  /\ Commit(doBreakthrough(Now), "breakthrough", 0)
  /\ UNCHANGED hidden

RECURSIVE Sum(_, _)
Sum(f, D) == IF D = {} THEN 0 ELSE LET d == CHOOSE x \in D : TRUE IN f[d] + Sum(f, D \ {d})

SkillLevels(st) == Sum(st.skills, SkillIds)

\* click on a Buy button of the shop
Purchase(id) ==
  /\ Playing /\ PointerFree
  /\ SkillLevels(S) < MaxSkillLevel
  /\ Commit(purchase(Now, id), "purchase", 0)
  /\ UNCHANGED hidden

\* click on the reincarnation button
ReincButton ==
  /\ Playing /\ PointerFree
  /\ Commit(tryManualReincarnate(Now), "reincButton", 0)
  /\ UNCHANGED hidden

\* click on the button of an unlocked time speed
SetSpeed(speed) ==
  /\ Playing /\ PointerFree
  /\ speed \in getAvailableSpeeds(S)
  /\ Commit(setTimeSpeed(Now, speed), "setSpeed", 0)
  /\ UNCHANGED hidden

\* visibilitychange to hidden
Hide ==
  /\ Playing /\ ~hidden
  /\ S.qi < MaxQi
  /\ Commit(saveSessionSnapshot(Now), "hide", 0)
  /\ hidden' = TRUE

\* visibilitychange to visible, elapsedSec after the snapshot
Show(elapsedSec) ==
  /\ hidden
  /\ Commit(applyOfflineProgressOnResume(Now, elapsedSec), "resume", elapsedSec)
  /\ hidden' = FALSE

\* pagehide, then a new page elapsedSec later: S = load(), init(), and the
\* module-level state starts over
Reload(elapsedSec) ==
  /\ Playing
  /\ S.qi < MaxQi
  /\ LET saved == saveSessionSnapshot(Now).S
         loaded == init(load(saved))
     IN  Commit(applyOfflineProgressOnResume([World(loaded) EXCEPT !.G = G], elapsedSec), "reload", elapsedSec)
  /\ hidden' = FALSE

\* handleClose(true) on the modal on screen, with the continuation it resolves
ModalConfirm ==
  /\ ~hidden
  /\ MM.shown # NoModal
  /\ LET m == MM.shown
         closed == cleanup(Now)
         resumed == IF m.kind = "death" THEN performDeathReincarnation(closed, m)
                    ELSE IF m.kind = "gate" THEN doReincarnate(closed, "mandatory")
                    ELSE IF m.kind \in {"voluntary", "final"} THEN doReincarnate(closed, "voluntary")
                    ELSE closed
         op == IF m.kind = "death" THEN "death"
               ELSE IF m.kind = "gate" THEN "mandatory"
               ELSE IF m.kind \in {"voluntary", "final"} THEN "voluntary"
               ELSE "dismiss"
     IN  Commit([resumed EXCEPT !.MM.displayTimer = TRUE], op, 0)
  /\ UNCHANGED hidden

\* handleClose(false) on a confirm modal
ModalCancel ==
  /\ ~hidden
  /\ MM.shown.kind \in ConfirmKinds
  /\ Commit([cleanup(Now) EXCEPT !.MM.displayTimer = TRUE], "cancel", 0)
  /\ UNCHANGED hidden

\* the 100 ms timer of handleClose fires
DisplayNext ==
  /\ MM.displayTimer
  /\ Commit(displayNext([Now EXCEPT !.MM.displayTimer = FALSE]), "display", 0)
  /\ UNCHANGED hidden

\* the 500 ms timer of doBreakthrough fires
SpiritNotice ==
  /\ MM.spiritTimer
  /\ Commit(showModal([Now EXCEPT !.MM.spiritTimer = FALSE], "spirit"), "notice", 0)
  /\ UNCHANGED hidden

\* setInterval(save, 15000) of init() fires (the Save button and Ctrl+S call
\* the same save()); the interval stops with the clock
Autosave ==
  /\ Playing \/ ~isFinite(S.reinc.karma)
  /\ S.qi < MaxQi
  /\ Commit(Now, "autosave", 0)
  /\ UNCHANGED hidden

\* The skills the player buys
Bought == {"breath_control", "closed_door"}

DtSet == {-MaxBack} \cup 0..MaxDt
GapSet == 0..MaxGap

Next ==
  \/ \E dt \in DtSet : Tick(dt)
  \/ Click
  \/ Breakthrough
  \/ \E id \in Bought : Purchase(id)
  \/ ReincButton
  \/ \E speed \in {BAL.timeSpeed.speeds[i] : i \in 1..Len(BAL.timeSpeed.speeds)} : SetSpeed(speed)
  \/ Hide
  \/ \E elapsedSec \in GapSet : Show(elapsedSec)
  \/ \E elapsedSec \in GapSet : Reload(elapsedSec)
  \/ ModalConfirm
  \/ ModalCancel
  \/ DisplayNext
  \/ SpiritNotice
  \/ Autosave

Spec == Init /\ [][Next]_vars

\* --------------------------------------------------------- step predicates
\* The step starts a new run: a transition completes in it
NewRunStep == G'.run = G.run + 1

\* The step is the rest of handleLifespanEnd, resumed by the death notice
DeathStep == NewRunStep /\ G'.fin # NoFin

\* The step is a doReincarnate, resumed by a confirm
ReincarnateStep == NewRunStep /\ G'.fin = NoFin

\* A death notice is on screen or queued: handleLifespanEnd is suspended
DeathPending ==
  \/ MM.shown.kind = "death"
  \/ \E i \in 1..Len(MM.queue) : MM.queue[i].kind = "death"

\* ------------------------------------------------------------------ claims

\* C1: one run produces at most one death transition.  Since the run began,
\* the body of handleLifespanEnd was entered at most once, whatever detected
\* the exhaustion, and S.stats.deaths grew by at most 1 from one run start to
\* the next.
C1_OneDeathPerRun ==
  /\ G.bodies <= 1
  /\ G.grew <= 1
  /\ S.stats.deaths <= G.deaths0

\* C1 witness: a run ended in a death transition that raised the death count
C1_Witness == G.fin.src \in {"tick", "offline"} /\ G.grew = 1 /\ G.run >= 1

\* C2: a death finalization that resumes after another reincarnation has
\* already replaced the run that died changes nothing: no karma is added,
\* the death count is not raised and the fresh run is not reset.
C2_StaleDeathIsDropped ==
  [][ (MM.shown.kind = "death" /\ MM.shown.run # G.run /\ MM'.displayTimer)
        => [S' EXCEPT !.timeSpeed = S.timeSpeed] = S ]_vars

\* C3: with the guard set, tick(dt) and onClick() change no field of S.
C3_GuardedTickClickNoOp ==
  [][ (lastOp'.op \in {"tick", "click"} /\ lastOp'.guard) => S' = S ]_vars

\* C3 witness: tick ran with the guard set
C3_Witness == lastOp.op = "tick" /\ lastOp.guard /\ S.lifecycle.isReincarnating

\* C4: applyOfflineProgressOnResume called with the guard set and the death
\* notice not yet acknowledged adds no Qi, does not change the age and does
\* not raise another death.
C4_GuardedResumeNoOp ==
  [][ (lastOp'.op = "resume" /\ lastOp'.guard /\ DeathPending)
        => /\ S'.qi = S.qi
           /\ S'.reinc.lifetimeQi = S.reinc.lifetimeQi
           /\ S'.age = S.age
           /\ G'.bodies = G.bodies ]_vars

\* C5: doReincarnate raises S.reinc.times by exactly 1 and leaves
\* S.stats.deaths as it was.
C5_ReincarnateKeepsDeaths ==
  [][ ReincarnateStep
        => /\ S'.reinc.times = S.reinc.times + 1
           /\ S'.stats.deaths = S.stats.deaths ]_vars

\* C6: the death transition triggered by a tick that pushed the age to the
\* lifespan raises S.stats.deaths by exactly 1, leaves S.reinc.times as it
\* is and starts a run of age 0 with the guard cleared; when no other
\* transition came in between, that is one more death and the same count of
\* reincarnations as when the tick ran.
C6_TickDeath ==
  [][ (DeathStep /\ G'.fin.src = "tick")
        => /\ S'.stats.deaths = S.stats.deaths + 1
           /\ S'.reinc.times = S.reinc.times
           /\ S'.age = 0
           /\ ~S'.lifecycle.isReincarnating
           /\ (G'.fin.run = G.run
                 => /\ S'.stats.deaths = G'.fin.deaths + 1
                    /\ S'.reinc.times = G'.fin.times) ]_vars

\* C6 witness: a tick-triggered death was acknowledged and a new run began
C6_Witness ==
  /\ G.fin.src = "tick" /\ G.fin.run + 1 = G.run
  /\ S.stats.deaths = G.fin.deaths + 1 /\ S.age = 0

C8_KarmaNeverDecreases ==
  [][ /\ isFinite(S'.reinc.karma)
      /\ isFinite(S.reinc.karma)
      /\ S'.reinc.karma >= S.reinc.karma
      /\ (NewRunStep =>
            S'.reinc.karma >= S.reinc.karma + BAL.reincarnation.minKarma) ]_vars

\* The run in st is a fresh one
FreshRun(st) ==
  /\ st.realmIndex = 0 /\ st.stage = 1
  /\ st.age = 0 /\ st.qi = 0 /\ st.reinc.lifetimeQi = 0
  /\ \A id \in SkillIds : st.skills[id] = 0
  /\ st.currentCycle = "mortal"
  /\ ~st.isDead /\ ~st.flags.lifespanHandled /\ ~st.lifecycle.isReincarnating
  /\ ~st.timeSpeed.paused
  /\ st.lifespan.max = getMaxLifespan(BAL, st, 0)
  /\ st.lifespan.current = getMaxLifespan(BAL, st, 0)

\* C9: every transition leaves a fresh run: realm 0, stage 1, age 0, no Qi,
\* no lifetime Qi, no skills, mortal cycle, isDead, the latch and the guard
\* false, time running, and the lifespan full at getMaxLifespan(0) for the
\* karma held after the payout.
C9_FreshRunAfterTransition ==
  [][ NewRunStep => FreshRun(S') ]_vars

\* The unlock flags of S
UnlockFlags ==
  {"unlockedBeyondSpirit", "hasUnlockedSpiritCycle",
   "hasCompletedMandatoryST10", "canManualReincarnate"}

\* C10: no transition resets an unlock flag or removes a speed from
\* S.meta.unlockedSpeeds.
C10_UnlocksSurvive ==
  [][ NewRunStep
        => /\ \A f \in UnlockFlags : S.flags[f] => S'.flags[f]
           /\ S.meta.unlockedSpeeds \subseteq S'.meta.unlockedSpeeds ]_vars

\* C10 witness: a transition completed and the player still holds the gate
\* flags and a speed beyond the base ones
C10_Witness ==
  /\ G.run >= 1
  /\ \A f \in UnlockFlags : S.flags[f]
  /\ 4 \in S.meta.unlockedSpeeds

\* Reincarnation confirms on screen or queued
PendingConfirms(mm) ==
  Cardinality({i \in 1..Len(mm.queue) : mm.queue[i].kind \in ConfirmKinds})
    + (IF mm.shown.kind \in ConfirmKinds THEN 1 ELSE 0)

\* C11: a manual reincarnation request made while hasCompletedMandatoryST10
\* is false or realmIndex < 4 is rejected: karma, times, deaths, realm,
\* stage, qi, age, skills and flags stay as they are, no run starts and no
\* reincarnation confirm is put on screen or queued.
C11_LockedRequestRejected ==
  [][ (lastOp'.op = "reincButton"
         /\ (~S.flags.hasCompletedMandatoryST10 \/ S.realmIndex < 4))
        => /\ S'.reinc = S.reinc /\ S'.stats = S.stats
           /\ S'.realmIndex = S.realmIndex /\ S'.stage = S.stage
           /\ S'.qi = S.qi /\ S'.age = S.age
           /\ S'.skills = S.skills /\ S'.flags = S.flags
           /\ G'.run = G.run
           /\ PendingConfirms(MM') = PendingConfirms(MM) ]_vars

\* C11 witness: the request was made before the gate flag was set and its
\* "locked" notice is on screen
C11_Witness ==
  /\ lastOp.op = "reincButton"
  /\ ~S.flags.hasCompletedMandatoryST10
  /\ MM.shown.kind = "info" /\ MM.shown.src = "locked"

\* C12: every voluntary reincarnation that is applied is applied to a state
\* that meets the voluntary precondition at that moment
\* (hasCompletedMandatoryST10 and realmIndex >= 4), also when its confirm is
\* answered after other events have run since the request.
C12_VoluntaryMeetsPrecondition ==
  [][ (MM.shown.kind = "voluntary" /\ ReincarnateStep)
        => (S.flags.hasCompletedMandatoryST10 /\ S.realmIndex >= 4) ]_vars

\* Gate notices on screen or queued
PendingGates(mm) ==
  Cardinality({i \in 1..Len(mm.queue) : mm.queue[i].kind = "gate"})
    + (IF mm.shown.kind = "gate" THEN 1 ELSE 0)

\* C13: a reincarnation in mode 'mandatory' is applied only at realmIndex 4,
\* stage 10 with unlockedBeyondSpirit false, and leaves all four unlock flags
\* true; achievementState.cycleTransitions never exceeds 1; and the gate
\* notice is not offered once unlockedBeyondSpirit is true.
C13_MandatoryOnlyAtGate ==
  [][ /\ (MM.shown.kind = "gate" /\ ReincarnateStep)
           => /\ S.realmIndex = 4 /\ S.stage = 10 /\ ~S.flags.unlockedBeyondSpirit
              /\ \A f \in UnlockFlags : S'.flags[f]
      /\ G'.cycleTransitions <= 1
      /\ PendingGates(MM') > PendingGates(MM) => ~S.flags.unlockedBeyondSpirit ]_vars

\* C14: while the effective speed is 0 (paused, or current speed 0), tick(dt)
\* and onClick() are no-ops: qi, lifetimeQi and age are unchanged and no death
\* is triggered.
C14_ZeroSpeedNoOp ==
  [][ (lastOp'.op \in {"tick", "click"} /\ getTimeSpeed(S) = 0)
        => /\ S'.qi = S.qi
           /\ S'.reinc.lifetimeQi = S.reinc.lifetimeQi
           /\ S'.age = S.age
           /\ G'.bodies = G.bodies
           /\ S'.lifecycle = S.lifecycle
           /\ MM' = MM ]_vars

\* A tick has run at speed 0 in a run that is not in transition and that has
\* Qi per second to gain
C14_Witness ==
  /\ lastOp.op = "tick" /\ lastOp.speed = 0 /\ ~lastOp.guard /\ lastOp.dt > 0
  /\ getTimeSpeed(S) = 0 /\ S.timeSpeed.current > 0
  /\ totalQPS(BAL, S) > 0

\* The lifespan of the run is a number: neither null (infinite) nor NaN
FiniteLifespan(st) == st.lifespan.max # null /\ isFinite(st.lifespan.max)

\* C15: in every reachable state with a finite lifespan, 0 <= S.age <=
\* S.lifespan.max, whatever ticks, offline replays, realm advances and
\* transitions led to it.
C15_AgeWithinLifespan ==
  FiniteLifespan(S) => (isFinite(S.age) /\ 0 <= S.age /\ S.age <= S.lifespan.max)

\* C16: in the terminal realm (getMaxLifespan is null) neither a tick nor an
\* offline replay changes the age, and no step triggers a death: none enters
\* handleLifespanEnd, sets the guard or sets isDead.
C16_TerminalRealmAgeless ==
  [][ isImmortal(BAL, S)
        => /\ lastOp'.op \in {"tick", "resume", "reload"} => S'.age = S.age
           /\ G'.bodies <= G.bodies
           /\ S'.lifecycle.isReincarnating => S.lifecycle.isReincarnating
           /\ S'.isDead => S.isDead ]_vars

\* A tick of one second at a positive speed has run in the terminal realm
C16_Witness ==
  /\ isImmortal(BAL, S) /\ ~S.lifecycle.isReincarnating
  /\ lastOp.op = "tick" /\ lastOp.dt > 0 /\ lastOp.speed > 0 /\ ~lastOp.guard

\* The state without a session snapshot (S.session is null)
Unsuspended(w) == [w EXCEPT !.S.session = NoSession]

\* C17: a resume from a snapshot whose speed-at-suspend is 0, and a resume
\* without a snapshot, are no-ops: no Qi and no lifetimeQi is gained, the age
\* is unchanged, no death is triggered and no snapshot is left.
C17_PausedResumeNoOp ==
  [][ lastOp'.op = "resume"
        => /\ S.session.lastSpeed <= 0
                => /\ S' = Unsuspended(Now).S
                   /\ G' = G /\ MM' = MM /\ isHandlingDeath' = isHandlingDeath
           /\ applyOfflineProgressOnResume(Unsuspended(Now), lastOp'.dt) = Unsuspended(Now) ]_vars

\* A resume has run after a gap, from a snapshot taken at speed 0 in a mortal
\* run that has Qi per second to gain
C17_Witness ==
  /\ lastOp.op = "resume" /\ lastOp.speed = 0 /\ lastOp.dt > 0 /\ ~lastOp.guard
  /\ S.timeSpeed.current = 0
  /\ FiniteLifespan(S) /\ totalQPS(BAL, S) > 0
  /\ S.session = NoSession

\* An offline-gains notice is on screen or queued
OfflineNoticePending ==
  \/ MM.shown.kind = "info" /\ MM.shown.src = "offline"
  \/ \E i \in 1..Len(MM.queue) : MM.queue[i].kind = "info" /\ MM.queue[i].src = "offline"

\* C18: a resume after a gap longer than the offline cap leaves exactly the
\* state (qi, lifetimeQi, age, death outcome) that a gap of the cap leaves,
\* and so does any longer gap.
C18_ReplayCap ==
  [][ (lastOp'.op = "resume" /\ lastOp'.dt > BAL.offline.capHours)
        => LET atCap == applyOfflineProgressOnResume(Now, BAL.offline.capHours)
           IN  /\ S' = atCap.S /\ MM' = atCap.MM /\ G' = atCap.G
               /\ isHandlingDeath' = atCap.H
               /\ \A e \in (BAL.offline.capHours + 1)..(MaxGap + 2) :
                    applyOfflineProgressOnResume(Now, e) = atCap ]_vars

\* A resume after a gap longer than the cap has gained Qi
C18_Witness ==
  /\ lastOp.op = "resume" /\ lastOp.dt > BAL.offline.capHours /\ lastOp.speed > 0
  /\ OfflineNoticePending

\* n sequential calls of tick(1)
RECURSIVE Ticks(_, _)
Ticks(w, n) == IF n = 0 THEN w ELSE Ticks(tick(w, 1), n - 1)

\* The step is a resume after a gap of 1 s up to the cap, from a snapshot
\* taken at the positive speed the run was playing at, in a run that is not
\* in transition and whose lifespan does not run out in the gap
PlainReplayStep ==
  /\ lastOp'.op = "resume"
  /\ lastOp'.dt >= 1 /\ lastOp'.dt <= BAL.offline.capHours
  /\ S.session.lastSpeed > 0 /\ getTimeSpeed(S) = S.session.lastSpeed
  /\ ~S.lifecycle.isReincarnating /\ ~S.isDead /\ ~isHandlingDeath
  /\ isFinite(S.age)
  /\ (FiniteLifespan(S)
        => S.age + Half(lastOp'.dt * S.session.lastSpeed * BAL.lifespan.yearsPerSecond)
             < S.lifespan.max)

NowNext == [S |-> S', H |-> isHandlingDeath', MM |-> MM', G |-> G']

\* C20: the session snapshot is consumed at most once: every resume, on
\* whatever exit path, leaves no snapshot, and a second resume that follows
\* with no suspend in between changes nothing, whatever the gap.
C20_SnapshotConsumedOnce ==
  [][ lastOp'.op \in {"resume", "reload"}
        => /\ S'.session = NoSession
           /\ \A e \in GapSet : applyOfflineProgressOnResume(NowNext, e) = NowNext ]_vars

\* A resume after one second has consumed its snapshot: it has gained Qi and
\* a year
C20_Witness ==
  /\ lastOp.op = "resume" /\ lastOp.dt = 1 /\ lastOp.speed > 0
  /\ S.session = NoSession
  /\ S.age > 0 /\ OfflineNoticePending

\* Offline-gains notices on screen or queued
OfflineNotices(mm) ==
  Cardinality({i \in 1..Len(mm.queue) :
                 mm.queue[i].kind = "info" /\ mm.queue[i].src = "offline"})
    + (IF mm.shown.kind = "info" /\ mm.shown.src = "offline" THEN 1 ELSE 0)

\* The step is an offline replay (on resume or on load) that ran, and it
\* left the age at the lifespan maximum
ExhaustingReplayStep ==
  /\ lastOp'.op \in {"resume", "reload"}
  /\ lastOp'.dt >= 1 /\ lastOp'.speed > 0
  /\ FiniteLifespan(S') /\ S'.age >= S'.lifespan.max

C22_BreakthroughAdvancesOneStep ==
  [][ lastOp'.op = "breakthrough"
        => LET req == stageRequirement(BAL, S, S.realmIndex, S.stage)
               granted == [defaultState(BAL) EXCEPT
                             !.qi = stageRequirement(BAL, defaultState(BAL), 0, 1)]
               broken == doBreakthrough(World(granted)).S
           IN  /\ (req # NaN /\ S.qi # NaN /\ S.qi >= req)
                    => /\ S'.qi = S.qi - req
                       /\ IF S.stage < 10
                          THEN S'.stage = S.stage + 1 /\ S'.realmIndex = S.realmIndex
                          ELSE S'.realmIndex = S.realmIndex + 1 /\ S'.stage = 1
               /\ Less(S.qi, req) => (S' = S /\ MM' = MM)
               /\ broken.realmIndex = 0 /\ broken.stage = 2 /\ broken.qi = 0 ]_vars

\* doBreakthrough stops at a wall: stage 10 of Spirit Transformation before
\* unlockedBeyondSpirit, the end of the cycle, or stage 10 of the last realm
AtWall(st) ==
  /\ st.stage = 10
  /\ \/ st.realmIndex = 4 /\ ~st.flags.unlockedBeyondSpirit
     \/ isAtCycleEnd(st)
     \/ st.realmIndex = NumRealms - 1

\* C22, amended: with enough qi doBreakthrough deducts exactly the
\* requirement and advances exactly one step, except at a wall, where it
\* deducts the requirement and leaves realm and stage as they are; with
\* less qi it changes nothing.  From a new game with qi equal to the
\* requirement it ends at stage 2 with qi 0.
C22_BreakthroughAdvancesOrStopsAtWall ==
  [][ lastOp'.op = "breakthrough"
        => LET req == stageRequirement(BAL, S, S.realmIndex, S.stage)
           IN  /\ (req # NaN /\ S.qi # NaN /\ S.qi >= req)
                    => /\ S'.qi = S.qi - req
                       /\ IF S.stage < 10
                          THEN S'.stage = S.stage + 1 /\ S'.realmIndex = S.realmIndex
                          ELSE IF AtWall(S)
                               THEN S'.stage = S.stage /\ S'.realmIndex = S.realmIndex
                               ELSE S'.realmIndex = S.realmIndex + 1 /\ S'.stage = 1
               /\ Less(S.qi, req) => (S' = S /\ MM' = MM)
               /\ LET fresh == defaultState(BAL)
                      paid == doBreakthrough(World(
                                [fresh EXCEPT !.qi = stageRequirement(BAL, fresh, 0, 1)])).S
                  IN  paid.realmIndex = 0 /\ paid.stage = 2 /\ paid.qi = 0 ]_vars

\* A breakthrough has been paid at stage 10 and has entered the last realm
C22_Witness ==
  /\ lastOp.op = "breakthrough" /\ G.climbed = 1
  /\ S.realmIndex = NumRealms - 1 /\ S.stage = 1

\* The step stays within one run: no reincarnation and no reset
SameRun == G'.run = G.run /\ S'.reinc.times = S.reinc.times

\* Stage and realm are within the tables of the game
StageAndRealmInRange ==
  /\ S.stage \in 1..10
  /\ S.realmIndex \in 0..(NumRealms - 1)

\* C23: in every reachable state 1 <= stage <= 10 and 0 <= realmIndex <= 9;
\* every increment of realmIndex is by one and sets stage to 1, and within a
\* run stage returns to 1 only through such an increment.
C23_StageOneOnlyOnRealmUp ==
  /\ []StageAndRealmInRange
  /\ [][ /\ S'.realmIndex > S.realmIndex
              => S'.realmIndex = S.realmIndex + 1 /\ S'.stage = 1
         /\ (SameRun /\ S.stage # 1 /\ S'.stage = 1)
              => S'.realmIndex = S.realmIndex + 1 ]_vars

\* A breakthrough at stage 10 past the gate has entered the first realm of
\* the spirit cycle
C23_Witness ==
  /\ lastOp.op = "breakthrough" /\ G.climbed >= 1
  /\ S.realmIndex = 5 /\ S.stage = 1 /\ S.flags.unlockedBeyondSpirit

\* C24: in every reachable state 0 <= S.qi <= 1e300: gains saturate, and a
\* purchase or a breakthrough is refused when qi is below its cost, so qi
\* never becomes negative.
C24_QiWithinRange ==
  /\ isFinite(S.qi)
  /\ 0 <= S.qi /\ S.qi <= QiCeiling

\* C25: computeDeathKarma is max(minKarma, floor(computeKarmaGain *
\* deathPenalty)); in every run state it is at least minKarma and at most
\* computeVoluntaryKarma.
C25_DeathKarmaBounds ==
  LET gain == computeKarmaGain(BAL, S)
      death == computeDeathKarma(BAL, S)
      voluntary == computeVoluntaryKarma(BAL, S)
  IN  /\ isFinite(gain) /\ isFinite(death) /\ isFinite(voluntary)
      /\ death = Max(BAL.reincarnation.minKarma,
                     (gain * BAL.reincarnation.deathPenalty) \div 100)
      /\ death >= BAL.reincarnation.minKarma
      /\ death <= voluntary

\* ------------------------------------------------- the formulas of a run
\* A second specification for the pure functions of the run state: it starts
\* from a run in progress at any realm, stage, karma and lifetime Qi, and
\* follows the handlers that apply them (the click, the breakthrough, the
\* voluntary reincarnation and its notices).
MaxKarma == 165

\* Lifetime Qi on both sides of the steps of floor(sqrt(lifetimeQi / 25))
LifetimeQiSet == {0, 24, 25, 99, 100, 225}

\* A balance.json with requirements that grow with realm and stage
FormulaBalance ==
  [SmallBalance EXCEPT
     !.stageRequirement = [realmBase |-> 3, realmBaseScale |-> 2, stageScale |-> 2]]

\* A run in progress: the realm, the stage and the meta progress are given,
\* the rest is what the handlers that lead there leave (realms beyond Spirit
\* Transformation lie past the gate; with enough = TRUE the run holds the
\* Qi of its next breakthrough)
Placed(bal, realmIndex, stage, karma, lifetimeQi, enough) ==
  LET passed == karma > 0
      st == [defaultState(bal) EXCEPT
               !.realmIndex = realmIndex,
               !.stage = stage,
               !.reinc = [times |-> IF passed THEN 1 ELSE 0, karma |-> karma,
                          lifetimeQi |-> lifetimeQi],
               !.flags.hasCompletedMandatoryST10 = passed,
               !.flags.hasUnlockedSpiritCycle = passed,
               !.flags.canManualReincarnate = passed,
               !.flags.unlockedBeyondSpirit = passed]
      newMax == getMaxLifespan(bal, st, realmIndex)
      settled == updateCurrentCycle([st EXCEPT !.lifespan = [current |-> newMax, max |-> newMax]])
  IN  [settled EXCEPT !.qi = IF enough THEN stageRequirement(bal, settled, realmIndex, stage)
                             ELSE 0]

StageSet == {1, 2, 10}

\* The karma sweep carries no lifetime Qi; the lifetime-Qi sweep is taken
\* at karma 0 (before the gate) and 6 (past it)
FormulaRuns(bal) ==
  LET Realms(karma) == {n \in 0..(NumRealms - 1) : n > 4 => karma > 0}
      sweepKarma ==
        UNION {{Placed(bal, r, stage, karma, 0, enough) :
                  r \in Realms(karma), stage \in StageSet, enough \in BOOLEAN} :
               karma \in 0..MaxKarma}
      sweepLifetimeQi ==
        UNION {{Placed(bal, r, stage, karma, lifetimeQi, enough) :
                  r \in Realms(karma), stage \in StageSet,
                  lifetimeQi \in LifetimeQiSet, enough \in BOOLEAN} :
               karma \in {0, 6}}
  IN  sweepKarma \cup sweepLifetimeQi

FormulaInit ==
  /\ BAL = FormulaBalance
  /\ S \in FormulaRuns(BAL)
  /\ isHandlingDeath = FALSE
  /\ MM = ModalManagerInit
  /\ hidden = FALSE
  /\ G = [GInit EXCEPT !.cycleTransitions = IF S.flags.hasCompletedMandatoryST10 THEN 1 ELSE 0]
  /\ lastOp = NoOp
  /\ away = InFront
  /\ ioArea = EmptyArea

FormulaNext ==
  \/ Click
  \/ Breakthrough
  \/ ReincButton
  \/ ModalConfirm
  \/ ModalCancel
  \/ DisplayNext
  \/ SpiritNotice

FormulaSpec == FormulaInit /\ [][FormulaNext]_vars

\* The base karma formula, for a lifetime Qi that is not negative
BaseKarma(bal, st) ==
  Max(bal.reincarnation.minKarma,
      Isqrt(st.reinc.lifetimeQi \div bal.reincarnation.lifetimeQiDivisor)
        + st.realmIndex * bal.reincarnation.realmKarmaFactor)
    * (IF st.currentCycle = "spirit" THEN 2 ELSE 1)

C27_KarmaAddedIsFinite ==
  [][ (NewRunStep /\ isFinite(S.reinc.karma))
        => /\ isFinite(S'.reinc.karma)
           /\ S'.reinc.karma - S.reinc.karma >= BAL.reincarnation.minKarma ]_vars

\* 1 + 0.20 per realm above realm 0, or 1 + 0.40 per realm above realm 5,
\* in 1/10000
LinearCyclePower(realmIndex) ==
  IF realmIndex <= 4 THEN 10000 + 2000 * realmIndex
  ELSE 10000 + 4000 * (realmIndex - 5)

\* C28: cyclePowerMult is 1 + 0.20 * realmIndex in realms 0..4 and 1 + 0.40 *
\* (realmIndex - 5) in realms 5..9, hence 1 in realms 0 and 5; it does not
\* compound, and a click earns the Qi per click with that factor, at the
\* time speed of the game.
C28_CyclePowerLinear ==
  /\ [](/\ cyclePowerMult(S.realmIndex) = LinearCyclePower(S.realmIndex)
        /\ S.realmIndex \in {0, 5} => cyclePowerMult(S.realmIndex) = 10000)
  /\ [][ (lastOp'.op = "click" /\ SkillLevels(S) = 0 /\ ~lastOp'.guard)
           => S'.qi = S.qi + Half(((((S.qpcBase * karmaQiMult(S.reinc.karma)) \div 10000)
                                      * LinearCyclePower(S.realmIndex)) \div 10000)
                                  * lastOp'.speed) ]_vars

\* A click in realm 7, the third of the spirit cycle, has earned Qi
C28_Witness ==
  /\ lastOp.op = "click" /\ S.realmIndex = 7 /\ S.qi > 0

C30_RequirementNonIncreasing ==
  isFinite(S.reinc.karma)
    => LET req == stageRequirement(BAL, S, S.realmIndex, S.stage)
           withMore == stageRequirement(BAL, [S EXCEPT !.reinc.karma = @ + 1],
                                        S.realmIndex, S.stage)
       IN  req >= 0 /\ withMore <= req

\* A breakthrough has been paid in full at karma 100, for less than it
\* costs at karma 0
C30_Witness ==
  /\ lastOp.op = "breakthrough" /\ G.climbed = 1 /\ S.qi = 0
  /\ S.reinc.karma = 100 /\ S.realmIndex = 3 /\ S.stage = 2
  /\ stageRequirement(BAL, S, 3, 1) < stageRequirement(BAL, [S EXCEPT !.reinc.karma = 0], 3, 1)

\* ------------------------------------------- persistence, guard and latch

\* C33: no state written to the persistent store (by the 15 s autosave, the
\* suspend snapshot, or save() after a click handler) has
\* S.lifecycle.isReincarnating or S.isDead set.
C33_PersistedStateIsSettled ==
  lastOp.saved.written => (~lastOp.saved.isReincarnating /\ ~lastOp.saved.isDead)

\* The step enters the body of handleLifespanEnd: it triggers a death
DeathTriggerStep == G'.run = G.run /\ G'.bodies = G.bodies + 1

\* C35: the death latch S.flags.lifespanHandled is set in the step that
\* triggers the death, and a step that clears it begins a new run.
C35_LatchClearedOnlyByNewRun ==
  [][ /\ DeathTriggerStep => S'.flags.lifespanHandled
      /\ (S.flags.lifespanHandled /\ ~S'.flags.lifespanHandled) => NewRunStep ]_vars

\* C36: tick(dt) with dt <= 0 changes nothing, S.reinc.lifetimeQi is never
\* negative, and no step within a run lowers it.
C36_NonPositiveDtChangesNothing ==
  /\ [](S.reinc.lifetimeQi >= 0)
  /\ [][ /\ (lastOp'.op = "tick" /\ lastOp'.dt <= 0) => (S' = S /\ MM' = MM)
         /\ SameRun => S'.reinc.lifetimeQi >= S.reinc.lifetimeQi ]_vars

\* What doBreakthrough and the purchase handler can change of a run
RunFields(st) ==
  [qi |-> st.qi, stage |-> st.stage, realmIndex |-> st.realmIndex, skills |-> st.skills,
   age |-> st.age, lifespanHandled |-> st.flags.lifespanHandled]

\* C37: while the guard is set and the death notice is not yet acknowledged,
\* doBreakthrough and the purchase handler leave qi, stage, realmIndex,
\* skills, age and the death latch as they are.
C37_DyingRunIsFrozen ==
  [][ (lastOp'.op \in {"breakthrough", "purchase"} /\ lastOp'.guard /\ DeathPending)
        => RunFields(S') = RunFields(S) ]_vars

\* C38: a doBreakthrough that advances neither the stage nor the realm (at
\* the gate of Spirit Transformation 10 and at the final ascension) leaves
\* qi unchanged.
C38_RefusedBreakthroughKeepsQi ==
  [][ (lastOp'.op = "breakthrough" /\ SameRun
         /\ S'.stage = S.stage /\ S'.realmIndex = S.realmIndex)
        => S'.qi = S.qi ]_vars

\* C39: a realm above Spirit Transformation is only held with
\* unlockedBeyondSpirit, currentCycle is "spirit" exactly from realm 5 on,
\* and the spirit cycle (whose karma gain is doubled) is only held after the
\* mandatory reincarnation.
C39_WallHolds ==
  /\ S.realmIndex > 4 => S.flags.unlockedBeyondSpirit
  /\ S.currentCycle = "spirit" <=> S.realmIndex >= 5
  /\ S.currentCycle = "spirit" => S.flags.hasCompletedMandatoryST10

\* A breakthrough at Spirit Transformation 10 has entered the spirit cycle
C39_Witness ==
  /\ lastOp.op = "breakthrough" /\ G.climbed = 1
  /\ S.realmIndex = 5 /\ S.currentCycle = "spirit"
  /\ S.flags.unlockedBeyondSpirit /\ S.flags.hasCompletedMandatoryST10
  /\ computeKarmaGain(BAL, S) = 2 * computeKarmaGainFlat(BAL, S)

\* C40: a snapshot taken while the game is paused, by the player or by an
\* open modal, records speed 0, and the replay of that snapshot on the next
\* page grants no Qi and no aging.
C40_SnapshotRecordsEffectiveSpeed ==
  [][ /\ (lastOp'.op = "hide" /\ getTimeSpeed(S) = 0) => S'.session.lastSpeed = 0
      /\ (lastOp'.op = "reload" /\ getTimeSpeed(S) = 0)
           => /\ S'.qi = S.qi
              /\ S'.reinc.lifetimeQi = S.reinc.lifetimeQi
              /\ S'.age = S.age ]_vars

\* C34: from the setting of the guard until karma, counters, preserved flags
\* and meta, the fresh run fields and the new lifespan are written, the
\* guard read through the current S is set in every intermediate state of
\* doReincarnate and of performDeathReincarnation.
C34_GuardClearedLast ==
  [][ LET closed == cleanup(Now).S
          writes == IF lastOp'.op = "death"
                    THEN performDeathReincarnationWrites(closed, MM.shown)
                    ELSE doReincarnateWrites(closed, lastOp'.op)
      IN  lastOp'.op \in {"death", "voluntary", "mandatory"}
            => \A i \in 1..Len(writes) : writes[i].lifecycle.isReincarnating ]_vars

\* ------------------------------------------------- return from background
\* The page is shown again elapsedSec after it was hidden.  No frame ran in
\* between (requestAnimationFrame is suspended in a hidden page), so the
\* visibilitychange hook and a frame of loop() with dt = now() - last, the
\* whole interval, are both due
PageShown(elapsedSec) ==
  /\ hidden /\ away = InFront
  /\ away' = [gap |-> elapsedSec, handler |-> TRUE, frame |-> TRUE,
              alone |-> Credit(applyOfflineProgressOnResume(Now, elapsedSec).S)]
  /\ UNCHANGED <<BAL, S, isHandlingDeath, MM, hidden, G, lastOp, ioArea>>

Returned(a) == IF a.handler \/ a.frame THEN a ELSE InFront

\* visibilitychange to visible: applyOfflineProgressOnResume({showPopup: true})
Resume ==
  /\ away.handler
  /\ Step(applyOfflineProgressOnResume(Now, away.gap), "resume", away.gap)
  /\ hidden' = FALSE
  /\ away' = Returned([away EXCEPT !.handler = FALSE])
  /\ UNCHANGED ioArea

\* The first frame of loop() after the return: dt = (now() - last) / 1000
FrameOnReturn ==
  /\ away.frame
  /\ Step(tick(Now, away.gap), "tick", away.gap)
  /\ away' = Returned([away EXCEPT !.frame = FALSE])
  /\ UNCHANGED <<hidden, ioArea>>

ResumeNext ==
  \/ away = InFront /\ \E dt \in 0..MaxDt : Tick(dt)
  \/ away = InFront /\ Click
  \/ away = InFront /\ Hide
  \/ \E elapsedSec \in GapSet : PageShown(elapsedSec)
  \/ Resume
  \/ FrameOnReturn
  \/ away = InFront /\ ModalConfirm
  \/ away = InFront /\ DisplayNext

ResumeSpec == Init /\ [][ResumeNext]_vars

\* C32: a hidden interval is credited once and within the offline cap: in
\* either order of the visibilitychange hook and the next frame of loop(),
\* that frame adds no Qi and no age, and after both the Qi and the age are
\* what applyOfflineProgressOnResume alone grants for the interval.
C32_SuspendedIntervalCreditedOnce ==
  [][ /\ (away.frame /\ ~away'.frame) => Credit(S') = Credit(S)
      /\ (away # InFront /\ away' = InFront) => Credit(S') = away.alone ]_vars

\* ------------------------------------------------------ export and import
\* The Export button
Export ==
  /\ PointerFree
  /\ ~ioArea.filled
  /\ Step(Now, "export", 0)
  /\ ioArea' = exportSave(Now)
  /\ UNCHANGED <<hidden, away>>

\* The Import button
Import ==
  /\ PointerFree
  /\ Step(importSave(Now, ioArea), IF ioArea.filled THEN "import" ELSE "importFailed", 0)
  /\ UNCHANGED <<hidden, away, ioArea>>

\* The page is followed up to its first import; once a code is exported the
\* player only cultivates
BeforeImport == lastOp.op \notin {"import", "importFailed"}

SaveNext ==
  \/ BeforeImport /\ \E dt \in DtSet : (ioArea.filled => dt >= 0) /\ Tick(dt)
  \/ BeforeImport /\ Click
  \/ BeforeImport /\ ~ioArea.filled /\ Breakthrough
  \/ BeforeImport /\ ModalConfirm
  \/ BeforeImport /\ ~ioArea.filled /\ ModalCancel
  \/ BeforeImport /\ DisplayNext
  \/ BeforeImport /\ SpiritNotice
  \/ BeforeImport /\ Export
  \/ BeforeImport /\ Import

SaveSpec == Init /\ [][SaveNext]_vars

\* C31: importing the text produced by exportSave restores the exported
\* state in every field (lastSave is not modelled; the notice that importSave
\* opens pauses the clock until it is dismissed).
C31_ExportImportRoundTrip ==
  [][ (lastOp'.op = "import")
        => [S' EXCEPT !.timeSpeed.paused = ioArea.exported.timeSpeed.paused] = ioArea.exported ]_vars

====
